---- MODULE Spec2Model ----
(***************************************************************************)
(* The class analyzer of the Tart compiler (lib/Sema/ClassAnalyzer.cpp):   *)
(* the demand-driven pass pipeline over composite types, as a call-stack   *)
(* machine.  A frame is one activation of ClassAnalyzer::analyze; a step   *)
(* runs the code of one pass up to its next recursive analyze call or to   *)
(* its return.                                                             *)
(***************************************************************************)
EXTENDS Integers, Sequences, FiniteSets, TLC

VARIABLES
  prog,       \* the input program (the declarations being compiled)
  running,    \* type -> passes marked running in the type's pass registry
  finished,   \* type -> passes marked finished
  ty,         \* type -> the CompositeType fields the passes compute
  fn,         \* method -> [dispatchIndex, overriddenMethods]
  diag,       \* the diagnostics emitted so far
  stack,      \* activations of ClassAnalyzer::analyze, outermost first
  ret,        \* the value returned by the activation that returned last
  rep         \* bookkeeping of a prepare call that is issued twice in a row

vars == <<prog, running, finished, ty, fn, diag, stack, ret, rep>>

NULL == "NULL"

-----------------------------------------------------------------------------
(* The pass enumeration and the task pass sets.                             *)

PassOrder ==
  << "ScopeCreation", "BaseTypes", "Attribute", "NamingConflict", "Converter",
     "Constructor", "MemberType", "Field", "FieldType", "Method",
     "Overloading", "Completion" >>

Passes == {PassOrder[i] : i \in 1..Len(PassOrder)}

PASS_SET_RESOLVE_TYPE == {"ScopeCreation", "BaseTypes"}

PASS_SET_LOOKUP == {"ScopeCreation", "BaseTypes", "Attribute"}

PASS_SET_CONSTRUCTION ==
  {"ScopeCreation", "BaseTypes", "Attribute", "NamingConflict", "Constructor"}

PASS_SET_CONVERSION ==
  {"ScopeCreation", "BaseTypes", "Attribute", "NamingConflict", "Converter"}

PASS_SET_EVALUATION ==
  {"ScopeCreation", "BaseTypes", "Attribute", "NamingConflict", "Converter",
   "MemberType", "Field", "Method", "Overloading"}

\* PASS_SET_TYPEGEN without the Field pass.
PASS_SET_TYPEGEN_NoField ==
  {"ScopeCreation", "BaseTypes", "NamingConflict", "Attribute", "FieldType"}

PASS_SET_TYPEGEN ==
  {"ScopeCreation", "BaseTypes", "NamingConflict", "Attribute", "Field",
   "FieldType"}

PASS_SET_CODEGEN ==
  {"ScopeCreation", "BaseTypes", "Attribute", "NamingConflict", "Converter",
   "Constructor", "MemberType", "Field", "Method", "Overloading",
   "Completion"}

Tasks ==
  {"PrepTypeComparison", "PrepMemberLookup", "PrepConstruction",
   "PrepConversion", "PrepEvaluation", "PrepTypeGeneration",
   "PrepCodeGeneration"}

\* ClassAnalyzer::analyze: the pass set a task stands for.
PassSetOf(task) ==
  CASE task = "PrepTypeComparison" -> PASS_SET_RESOLVE_TYPE
    [] task = "PrepMemberLookup"   -> PASS_SET_LOOKUP
    [] task = "PrepConstruction"   -> PASS_SET_CONSTRUCTION
    [] task = "PrepConversion"     -> PASS_SET_CONVERSION
    [] task = "PrepEvaluation"     -> PASS_SET_EVALUATION
    [] task = "PrepTypeGeneration" -> PASS_SET_TYPEGEN
    [] task = "PrepCodeGeneration" -> PASS_SET_CODEGEN

\* The order in which runPasses tries the passes of a non-template type.
RunOrder ==
  << "ScopeCreation", "Attribute", "NamingConflict", "BaseTypes", "MemberType",
     "Field", "Converter", "Constructor", "Method", "Overloading",
     "FieldType", "Completion" >>

\* The order in which runPasses tries the passes of a template.
TemplateRunOrder == << "BaseTypes", "ScopeCreation" >>

-----------------------------------------------------------------------------
(* Input programs.  A program is a finite set of type declarations; a       *)
(* declaration lists its base expressions, its methods, its fields and its  *)
(* nested types in declaration order.                                       *)

\* A type declaration with the given kind and base list and no members.
\* Its properties (props) are declared after its methods.
Decl(kind, bases) ==
  [ kind |-> kind, bases |-> bases, methods |-> <<>>, fields |-> <<>>,
    nested |-> <<>>, isAbstract |-> FALSE, isFinal |-> FALSE,
    isTemplate |-> FALSE, isTemplateMember |-> FALSE, hasAST |-> TRUE,
    conflict |-> FALSE, scopeFails |-> FALSE, attrFails |-> FALSE,
    ctors |-> <<>>, hasCreate |-> FALSE, coerce |-> <<>>, props |-> <<>> ]

\* An instance method: its name, its signature, the signatures it is
\* override-compatible with, whether it has a body, whether it is declared
\* with the override keyword.  prop is the name of the property a getter or
\* setter belongs to, and NULL for a method.
Fn(name, sig, over, body, ovr) ==
  [ name |-> name, sig |-> sig, over |-> over, hasBody |-> body,
    isOverride |-> ovr, isFinal |-> FALSE, isUndefined |-> FALSE,
    isExtern |-> FALSE, isIntrinsic |-> FALSE, isPublic |-> TRUE,
    prop |-> NULL ]

\* The getter of property prop, with its type as signature.
Getter(prop, sig, over, body) ==
  [Fn("get", sig, over, body, FALSE) EXCEPT !.prop = prop]

\* An instance property: its name, its getter and its setter (or NULL).
Property(name, getter, setter) ==
  [ name |-> name, getter |-> getter, setter |-> setter ]

\* A var or let member: its name, its type, whether it is a let, whether it
\* has an initializer, whether the initializer is a compile-time constant,
\* whether its type has a constant null value, its storage and visibility.
Field(name, type) ==
  [ name |-> name, type |-> type, isLet |-> FALSE, hasInit |-> FALSE,
    constInit |-> FALSE, nullInit |-> FALSE, isStatic |-> FALSE,
    isPublic |-> TRUE ]

ObjectDecl == [Decl("Class", <<>>) EXCEPT !.methods = <<"Object_str">>]

ObjectStr == Fn("str", "s0", {"s0"}, TRUE, FALSE)

\* S1: class A { def foo() {} }; class B : A { override def foo() {}; def bar() {} }
ProgInherit ==
  [ decl |-> [ Object |-> ObjectDecl,
               A |-> [Decl("Class", <<>>) EXCEPT !.methods = <<"A_foo">>],
               B |-> [Decl("Class", <<"A">>) EXCEPT
                        !.methods = <<"B_foo", "B_bar">>] ],
    fns |-> [ Object_str |-> ObjectStr,
              A_foo |-> Fn("foo", "s0", {"s0"}, TRUE, FALSE),
              B_foo |-> Fn("foo", "s0", {"s0"}, TRUE, TRUE),
              B_bar |-> Fn("bar", "s0", {"s0"}, TRUE, FALSE) ],
    targets |-> {"A", "B"} ]

\* S4: class X : Y; class Y : X
ProgCircular ==
  [ decl |-> [ Object |-> ObjectDecl,
               X |-> Decl("Class", <<"Y">>),
               Y |-> Decl("Class", <<"X">>) ],
    fns |-> [ Object_str |-> ObjectStr ],
    targets |-> {"X", "Y"} ]

\* S2: interface I { def m() }; class C : Object, I { def m() {} };
\* class D : C { override def m() {} }
ProgImplements ==
  [ decl |-> [ Object |-> ObjectDecl,
               I |-> [Decl("Interface", <<>>) EXCEPT !.methods = <<"I_m">>],
               C |-> [Decl("Class", <<"Object", "I">>) EXCEPT
                        !.methods = <<"C_m">>],
               D |-> [Decl("Class", <<"C">>) EXCEPT !.methods = <<"D_m">>] ],
    fns |-> [ Object_str |-> ObjectStr,
              I_m |-> Fn("m", "s0", {"s0"}, FALSE, FALSE),
              C_m |-> Fn("m", "s0", {"s0"}, TRUE, FALSE),
              D_m |-> Fn("m", "s0", {"s0"}, TRUE, TRUE) ],
    targets |-> {"I", "D"} ]

\* S3: interface I { def m() }; interface J { def n() };
\* class C : Object, I, J { }
ProgUnimplemented ==
  [ decl |-> [ Object |-> ObjectDecl,
               I |-> [Decl("Interface", <<>>) EXCEPT !.methods = <<"I_m">>],
               J |-> [Decl("Interface", <<>>) EXCEPT !.methods = <<"J_n">>],
               C |-> Decl("Class", <<"Object", "I", "J">>) ],
    fns |-> [ Object_str |-> ObjectStr,
              I_m |-> Fn("m", "s0", {"s0"}, FALSE, FALSE),
              J_n |-> Fn("n", "s0", {"s0"}, FALSE, FALSE) ],
    targets |-> {"C", "J"} ]

\* S6: class A; class B; class C : A, B
ProgTwoSupers ==
  [ decl |-> [ Object |-> ObjectDecl,
               A |-> Decl("Class", <<>>),
               B |-> [Decl("Class", <<>>) EXCEPT !.methods = <<"B_g">>],
               C |-> Decl("Class", <<"A", "B">>) ],
    fns |-> [ Object_str |-> ObjectStr,
              B_g |-> Fn("g", "s0", {"s0"}, TRUE, FALSE) ],
    targets |-> {"C", "B"} ]

\* class B { def foo() {}; var foo: Int }; class A : B { override def foo() {} }
ProgConflict ==
  [ decl |-> [ Object |-> ObjectDecl,
               B |-> [Decl("Class", <<>>) EXCEPT !.methods = <<"B_foo">>,
                                                 !.conflict = TRUE],
               A |-> [Decl("Class", <<"B">>) EXCEPT !.methods = <<"A_foo">>] ],
    fns |-> [ Object_str |-> ObjectStr,
              B_foo |-> Fn("foo", "s0", {"s0"}, TRUE, FALSE),
              A_foo |-> Fn("foo", "s0", {"s0"}, TRUE, TRUE) ],
    targets |-> {"A", "B"} ]

\* interface I { def m() }; class C { def m(); def k() {} };
\* abstract class D : Object, I { def n() }
\* (C is concrete and leaves m without a body; D is abstract and leaves
\* both n and I.m without one)
ProgAbstract ==
  [ decl |-> [ Object |-> ObjectDecl,
               I |-> [Decl("Interface", <<>>) EXCEPT !.methods = <<"I_m">>],
               C |-> [Decl("Class", <<>>) EXCEPT !.methods = <<"C_m", "C_k">>],
               D |-> [Decl("Class", <<"Object", "I">>) EXCEPT
                        !.methods = <<"D_n">>, !.isAbstract = TRUE] ],
    fns |-> [ Object_str |-> ObjectStr,
              I_m |-> Fn("m", "s0", {"s0"}, FALSE, FALSE),
              C_m |-> Fn("m", "s0", {"s0"}, FALSE, FALSE),
              C_k |-> Fn("k", "s0", {"s0"}, TRUE, FALSE),
              D_n |-> Fn("n", "s0", {"s0"}, FALSE, FALSE) ],
    targets |-> {"C", "D"} ]

\* class A { def f(x: P) {}; def f(x: Q) {}; def h() {} };
\* class B : A { def f(x: R) {}; def h(x: Int) {}; final def g() {} }
\* where B.f is override-compatible with both A.f, and B.h with none.
ProgMultiSlot ==
  [ decl |-> [ Object |-> ObjectDecl,
               A |-> [Decl("Class", <<>>) EXCEPT
                        !.methods = <<"A_f1", "A_f2", "A_h">>],
               B |-> [Decl("Class", <<"A">>) EXCEPT
                        !.methods = <<"B_f", "B_h", "B_g">>] ],
    fns |-> [ Object_str |-> ObjectStr,
              A_f1 |-> Fn("f", "s1", {"s1"}, TRUE, FALSE),
              A_f2 |-> Fn("f", "s2", {"s2"}, TRUE, FALSE),
              A_h |-> Fn("h", "s0", {"s0"}, TRUE, FALSE),
              B_f |-> Fn("f", "s3", {"s1", "s2", "s3"}, TRUE, FALSE),
              B_h |-> Fn("h", "s1", {"s1"}, TRUE, FALSE),
              B_g |-> [Fn("g", "s0", {"s0"}, TRUE, FALSE) EXCEPT
                         !.isFinal = TRUE] ],
    targets |-> {"A", "B"} ]

\* class T { var i: Inner; var n: Int; class Inner : T { var t: T } }
ProgNested ==
  [ decl |-> [ Object |-> ObjectDecl,
               T |-> [Decl("Class", <<>>) EXCEPT
                        !.fields = <<Field("i", "Inner"), Field("n", "Int")>>,
                        !.nested = <<"Inner">>],
               Inner |-> [Decl("Class", <<"T">>) EXCEPT
                            !.fields = <<Field("t", "T")>>] ],
    fns |-> [ Object_str |-> ObjectStr ],
    targets |-> {"T", "Inner"} ]

\* class A (whose member scope cannot be built); class B : A (whose
\* attributes do not resolve)
ProgBroken ==
  [ decl |-> [ Object |-> ObjectDecl,
               A |-> [Decl("Class", <<>>) EXCEPT !.scopeFails = TRUE],
               B |-> [Decl("Class", <<"A">>) EXCEPT !.attrFails = TRUE] ],
    fns |-> [ Object_str |-> ObjectStr ],
    targets |-> {"A", "B"} ]

\* interface I { def m(); var m: Int } (a name conflict);
\* class C : Object, I { def m() {} }; class D : C, I { }
ProgConflictInterface ==
  [ decl |-> [ Object |-> ObjectDecl,
               I |-> [Decl("Interface", <<>>) EXCEPT !.methods = <<"I_m">>,
                                                     !.conflict = TRUE],
               C |-> [Decl("Class", <<"Object", "I">>) EXCEPT
                        !.methods = <<"C_m">>],
               D |-> Decl("Class", <<"C", "I">>) ],
    fns |-> [ Object_str |-> ObjectStr,
              I_m |-> Fn("m", "s0", {"s0"}, FALSE, FALSE),
              C_m |-> Fn("m", "s0", {"s0"}, TRUE, FALSE) ],
    targets |-> {"D", "I"} ]

\* class A { def foo() {} }; class B : A { def foo() {} };
\* class C : B { override def foo() {}; def baz() {} }
ProgChain ==
  [ decl |-> [ Object |-> ObjectDecl,
               A |-> [Decl("Class", <<>>) EXCEPT !.methods = <<"A_foo">>],
               B |-> [Decl("Class", <<"A">>) EXCEPT !.methods = <<"B_foo">>],
               C |-> [Decl("Class", <<"B">>) EXCEPT
                        !.methods = <<"C_foo", "C_baz">>] ],
    fns |-> [ Object_str |-> ObjectStr,
              A_foo |-> Fn("foo", "s0", {"s0"}, TRUE, FALSE),
              B_foo |-> Fn("foo", "s0", {"s0"}, TRUE, FALSE),
              C_foo |-> Fn("foo", "s0", {"s0"}, TRUE, TRUE),
              C_baz |-> Fn("baz", "s0", {"s0"}, TRUE, FALSE) ],
    targets |-> {"C", "A"} ]

\* S1 to the letter: class A { def foo() {} }; class B : A { override def foo() {} }
ProgOverride ==
  [ decl |-> [ Object |-> ObjectDecl,
               A |-> [Decl("Class", <<"Object">>) EXCEPT !.methods = <<"A_foo">>],
               B |-> [Decl("Class", <<"A">>) EXCEPT !.methods = <<"B_foo">>] ],
    fns |-> [ Object_str |-> ObjectStr,
              A_foo |-> Fn("foo", "s0", {"s0"}, TRUE, FALSE),
              B_foo |-> Fn("foo", "s0", {"s0"}, TRUE, TRUE) ],
    targets |-> {"A", "B"} ]

\* class A { def f(x: P) {} };
\* class B : A { override def f(x: Q) {}; override def f(x: R) {} }
\* where both B.f are override-compatible with A.f.
ProgTwoOverrides ==
  [ decl |-> [ Object |-> ObjectDecl,
               A |-> [Decl("Class", <<>>) EXCEPT !.methods = <<"A_f">>],
               B |-> [Decl("Class", <<"A">>) EXCEPT
                        !.methods = <<"B_f1", "B_f2">>] ],
    fns |-> [ Object_str |-> ObjectStr,
              A_f |-> Fn("f", "s1", {"s1"}, TRUE, FALSE),
              B_f1 |-> Fn("f", "s2", {"s1", "s2"}, TRUE, TRUE),
              B_f2 |-> Fn("f", "s3", {"s1", "s3"}, TRUE, TRUE) ],
    targets |-> {"B"} ]

\* protocol P { }; struct S : P { }; interface J : P { }
ProgProtocol ==
  [ decl |-> [ Object |-> ObjectDecl,
               P |-> Decl("Protocol", <<>>),
               S |-> Decl("Struct", <<"P">>),
               J |-> Decl("Interface", <<"P">>) ],
    fns |-> [ Object_str |-> ObjectStr ],
    targets |-> {"S", "J"} ]

\* S5: class P { public var x: Int; public var y: Int = 3;
\*              private var z: Int = 0 }
ProgDefaultCtor ==
  [ decl |-> [ Object |-> ObjectDecl,
               P |-> [Decl("Class", <<>>) EXCEPT
                        !.fields =
                          << Field("x", "Int"),
                             [Field("y", "Int") EXCEPT !.hasInit = TRUE,
                                                       !.constInit = TRUE],
                             [Field("z", "Int") EXCEPT !.hasInit = TRUE,
                                                       !.constInit = TRUE,
                                                       !.isPublic = FALSE] >>] ],
    fns |-> [ Object_str |-> ObjectStr ],
    targets |-> {"P"} ]

\* class A { def construct(x: Int) {} }; class B : A { };
\* class C { public var r: String; public var q: Int }
\* where the type of r has a constant null value and the type of q has none.
ProgNoDefaultCtor ==
  [ decl |-> [ Object |-> ObjectDecl,
               A |-> [Decl("Class", <<>>) EXCEPT !.ctors = <<1>>],
               B |-> Decl("Class", <<"A">>),
               C |-> [Decl("Class", <<>>) EXCEPT
                        !.fields =
                          << [Field("r", "String") EXCEPT !.nullInit = TRUE],
                             Field("q", "Int") >>] ],
    fns |-> [ Object_str |-> ObjectStr ],
    targets |-> {"B", "C"} ]

\* class A { def f() {}; def g() {} };
\* class B : A { final override def f() {}; final def h() {} }
ProgFinal ==
  [ decl |-> [ Object |-> ObjectDecl,
               A |-> [Decl("Class", <<>>) EXCEPT !.methods = <<"A_f", "A_g">>],
               B |-> [Decl("Class", <<"A">>) EXCEPT
                        !.methods = <<"B_f", "B_h">>] ],
    fns |-> [ Object_str |-> ObjectStr,
              A_f |-> Fn("f", "s0", {"s0"}, TRUE, FALSE),
              A_g |-> Fn("g", "s0", {"s0"}, TRUE, FALSE),
              B_f |-> [Fn("f", "s0", {"s0"}, TRUE, TRUE) EXCEPT
                         !.isFinal = TRUE],
              B_h |-> [Fn("h", "s0", {"s0"}, TRUE, FALSE) EXCEPT
                         !.isFinal = TRUE] ],
    targets |-> {"B"} ]

\* interface I { def m() };
\* abstract class A { def h(); def k() {}; def q() };
\* class B : A, I { def h(x: Int) {}; def m(x: Int) {}; def k() {};
\*                  def q() {} }
\* where B.h and B.m are override-compatible with no inherited method.
ProgHide ==
  [ decl |-> [ Object |-> ObjectDecl,
               I |-> [Decl("Interface", <<>>) EXCEPT !.methods = <<"I_m">>],
               A |-> [Decl("Class", <<>>) EXCEPT
                        !.methods = <<"A_h", "A_k", "A_q">>,
                        !.isAbstract = TRUE],
               B |-> [Decl("Class", <<"A", "I">>) EXCEPT
                        !.methods = <<"B_h", "B_m", "B_k", "B_q">>] ],
    fns |-> [ Object_str |-> ObjectStr,
              I_m |-> Fn("m", "s0", {"s0"}, FALSE, FALSE),
              A_h |-> Fn("h", "s0", {"s0"}, FALSE, FALSE),
              A_k |-> Fn("k", "s0", {"s0"}, TRUE, FALSE),
              A_q |-> Fn("q", "s0", {"s0"}, FALSE, FALSE),
              B_h |-> Fn("h", "s1", {"s1"}, TRUE, FALSE),
              B_m |-> Fn("m", "s1", {"s1"}, TRUE, FALSE),
              B_k |-> Fn("k", "s0", {"s0"}, TRUE, FALSE),
              B_q |-> Fn("q", "s0", {"s0"}, TRUE, FALSE) ],
    targets |-> {"B"} ]

\* interface I { def size: Int { get } };
\* class A { def v: Int { get {} }; def w: Int { get {} } };
\* class B : A, I { def v: Int { get {} }; def w: String { get {} };
\*                  def size: String { get {} } }
ProgProperty ==
  [ decl |-> [ Object |-> ObjectDecl,
               I |-> [Decl("Interface", <<>>) EXCEPT
                        !.props = <<Property("size", "I_size", NULL)>>],
               A |-> [Decl("Class", <<>>) EXCEPT
                        !.props = << Property("v", "A_v", NULL),
                                     Property("w", "A_w", NULL) >>],
               B |-> [Decl("Class", <<"A", "I">>) EXCEPT
                        !.props = << Property("v", "B_v", NULL),
                                     Property("w", "B_w", NULL),
                                     Property("size", "B_size", NULL) >>] ],
    fns |-> [ Object_str |-> ObjectStr,
              I_size |-> Getter("size", "s0", {"s0"}, FALSE),
              A_v |-> Getter("v", "s0", {"s0"}, TRUE),
              A_w |-> Getter("w", "s0", {"s0"}, TRUE),
              B_v |-> Getter("v", "s0", {"s0"}, TRUE),
              B_w |-> Getter("w", "s1", {"s1"}, TRUE),
              B_size |-> Getter("size", "s1", {"s1"}, TRUE) ],
    targets |-> {"B"} ]

\* class T { class N } where the member scope of N cannot be built.
ProgBrokenMember ==
  [ decl |-> [ Object |-> ObjectDecl,
               T |-> [Decl("Class", <<>>) EXCEPT !.nested = <<"N">>],
               N |-> [Decl("Class", <<>>) EXCEPT !.scopeFails = TRUE] ],
    fns |-> [ Object_str |-> ObjectStr ],
    targets |-> {"T"} ]

\* The catalogue of input programs.
Programs ==
  << ProgInherit, ProgCircular, ProgImplements, ProgUnimplemented,
     ProgTwoSupers, ProgConflict, ProgAbstract, ProgMultiSlot, ProgNested,
     ProgBroken, ProgConflictInterface, ProgOverride, ProgTwoOverrides,
     ProgProtocol, ProgDefaultCtor, ProgNoDefaultCtor, ProgFinal, ProgHide,
     ProgProperty, ProgBrokenMember, ProgChain >>

\* The programs 1..NumPrograms of the catalogue are analyzed.
NumPrograms == 20

-----------------------------------------------------------------------------
(* Access to the program under analysis.                                    *)

Types == DOMAIN prog.decl

decl(t) == prog.decl[t]

FnIds == DOMAIN prog.fns

fdef(m) == prog.fns[m]

\* Elements of a sequence.
Range(q) == {q[i] : i \in 1..Len(q)}

\* The getters and setters of the properties of type t.
Accessors(t) ==
  {decl(t).props[k].getter : k \in 1..Len(decl(t).props)}
    \cup {decl(t).props[k].setter : k \in 1..Len(decl(t).props)}

\* The type that declares method m, or the property m is an accessor of.
OwnerOf(m) ==
  CHOOSE t \in Types : m \in Range(decl(t).methods) \cup Accessors(t)

-----------------------------------------------------------------------------
(* The mutable state as one record, and the pass registry.                  *)

cur ==
  [ running |-> running, finished |-> finished, ty |-> ty, fn |-> fn,
    diag |-> diag, stack |-> stack ]

Commit(s) ==
  /\ running' = s.running
  /\ finished' = s.finished
  /\ ty' = s.ty
  /\ fn' = s.fn
  /\ diag' = s.diag
  /\ stack' = s.stack

Top(s) == s.stack[Len(s.stack)]

WithTop(s, f) == [s EXCEPT !.stack[Len(s.stack)] = f]

\* diag.error / diag.fatal / diag.warn: a diagnostic of a kind, on a target.
EmitCiting(s, kind, target, cites) ==
  [s EXCEPT !.diag = @ \cup
     {[kind |-> kind, target |-> target, cites |-> cites]}]

Emit(s, kind, target) == EmitCiting(s, kind, target, {})

isRunning(s, t, pass) == pass \in s.running[t]

isFinished(s, t, pass) == pass \in s.finished[t]

\* begin(pass, quiet): the value it returns.
beginOk(s, t, pass) == ~isFinished(s, t, pass) /\ ~isRunning(s, t, pass)

\* begin(pass, quiet) without the test for a finished pass.
beginIgnoringFinished(s, t, pass, quiet) ==
  IF isRunning(s, t, pass)
  THEN IF quiet THEN s ELSE Emit(s, "InfiniteRecursion", t)
  ELSE [s EXCEPT !.running[t] = @ \cup {pass}]

\* begin(pass, quiet): the state it leaves.
begin(s, t, pass, quiet) ==
  IF isFinished(s, t, pass) THEN s
  ELSE IF isRunning(s, t, pass)
       THEN IF quiet THEN s ELSE Emit(s, "InfiniteRecursion", t)
       ELSE [s EXCEPT !.running[t] = @ \cup {pass}]

\* finish(pass)
finish(s, t, pass) ==
  [s EXCEPT !.running[t] = @ \ {pass}, !.finished[t] = @ \cup {pass}]

-----------------------------------------------------------------------------
(* Activations of analyze / runPasses.                                      *)

RunOrderOf(t) == IF decl(t).isTemplate THEN TemplateRunOrder ELSE RunOrder

\* The first pass of the order at a position >= k that is to run, or "return".
PassFrom(order, toRun, k) ==
  LET ks == {j \in k..Len(order) : order[j] \in toRun}
  IN IF ks = {} THEN "return"
     ELSE order[CHOOSE j \in ks : \A j2 \in ks : j <= j2]

IndexOf(order, p) == CHOOSE j \in 1..Len(order) : order[j] = p

\* The frame moved to the pass that runPasses tries after pass p.
After(f, p) ==
  LET order == RunOrderOf(f.t)
  IN [f EXCEPT !.pc = PassFrom(order, f.run, IndexOf(order, p) + 1),
               !.sub = "enter", !.i = 1, !.prim = NULL, !.rv = TRUE]

\* runPasses returns false.
Fail(f) == [f EXCEPT !.pc = "return", !.sub = "enter", !.rv = FALSE]

\* analyze(task) on type t, up to the first pass runPasses tries.
runPasses(s, t, task) ==
  LET toRun == PassSetOf(task) \ s.finished[t]
      first == IF toRun = {} THEN "return"
               ELSE IF ~decl(t).isTemplate /\ decl(t).isTemplateMember
                    THEN "return"
                    ELSE PassFrom(RunOrderOf(t), toRun, 1)
  IN [ t |-> t, task |-> task, run |-> toRun, pc |-> first, sub |-> "enter",
       i |-> 1, prim |-> NULL, n |-> 0, rv |-> TRUE ]

\* ClassAnalyzer(t).analyze(task), called from the top activation.
Call(s, t, task) == [s EXCEPT !.stack = Append(@, runPasses(s, t, task))]

-----------------------------------------------------------------------------
(* The passes without recursion.                                            *)

\* runPasses, ScopeCreation: createMembersFromAST between begin and finish.
createMembers(s) ==
  LET f == Top(s)
      b == begin(s, f.t, "ScopeCreation", FALSE)
  IN IF ~beginOk(s, f.t, "ScopeCreation")
     THEN WithTop(b, After(f, "ScopeCreation"))
     ELSE IF decl(f.t).scopeFails
          THEN WithTop(b, Fail(f))
          ELSE WithTop(finish(b, f.t, "ScopeCreation"), After(f, "ScopeCreation"))

\* runPasses, Attribute: resolveAttributes between begin and finish.
resolveAttributes(s) ==
  LET f == Top(s)
      b == begin(s, f.t, "Attribute", FALSE)
  IN IF ~beginOk(s, f.t, "Attribute")
     THEN WithTop(b, After(f, "Attribute"))
     ELSE IF decl(f.t).attrFails
          THEN WithTop(b, Fail(f))
          ELSE WithTop(finish(b, f.t, "Attribute"), After(f, "Attribute"))

\* checkNameConflicts
checkNameConflicts(s) ==
  LET f == Top(s)
      b == begin(s, f.t, "NamingConflict", FALSE)
  IN IF ~beginOk(s, f.t, "NamingConflict")
     THEN WithTop(b, After(f, "NamingConflict"))
     ELSE IF decl(f.t).conflict
          THEN WithTop(finish(Emit(b, "NameConflict", f.t), f.t, "NamingConflict"),
                       Fail(f))
          ELSE WithTop(finish(b, f.t, "NamingConflict"),
                       After(f, "NamingConflict"))

\* analyzeMemberTypes
analyzeMemberTypes(s) ==
  LET f == Top(s)
      b == begin(s, f.t, "MemberType", FALSE)
  IN IF ~beginOk(s, f.t, "MemberType")
     THEN WithTop(b, After(f, "MemberType"))
     ELSE WithTop(finish(b, f.t, "MemberType"), After(f, "MemberType"))

-----------------------------------------------------------------------------
(* BaseTypes: analyzeBaseClasses and analyzeBaseClassesImpl.                *)

IsType(b) == b \in Types

isFromTemplate(t) == decl(t).isTemplate \/ decl(t).isTemplateMember

\* analyzeBaseClassesImpl returned false, taken for true by its caller.
implFailIgnored(s) ==
  LET f == Top(s)
  IN WithTop(finish(s, f.t, "BaseTypes"), After(f, "BaseTypes"))

\* analyzeBaseClassesImpl returned false: the pass is finished, runPasses fails.
implFail(s) ==
  LET f == Top(s)
  IN WithTop(finish(s, f.t, "BaseTypes"), Fail(f))

\* analyzeBaseClasses without the test for a running BaseTypes pass.
analyzeBaseClassesUnguarded(s) ==
  LET f == Top(s)
      t == f.t
      b == [s EXCEPT !.running[t] = @ \cup {"BaseTypes"}]
  IN IF isFinished(s, t, "BaseTypes")
     THEN WithTop(s, After(f, "BaseTypes"))
     ELSE WithTop(b, [f EXCEPT !.sub = "loop", !.i = 1, !.prim = NULL])

\* analyzeBaseClasses up to the loop over the base expressions.
analyzeBaseClasses(s) ==
  LET f == Top(s)
      t == f.t
      b == begin(s, t, "BaseTypes", FALSE)
      fin == IF decl(t).isFinal /\ decl(t).kind \in {"Interface", "Protocol"}
             THEN Emit(b, "CannotBeFinal", t) ELSE b
  IN IF isRunning(s, t, "BaseTypes")
     THEN WithTop(Emit(s, "CircularInheritance", t), Fail(f))
     ELSE IF ~beginOk(s, t, "BaseTypes")
          THEN WithTop(s, After(f, "BaseTypes"))
          ELSE IF ~decl(t).hasAST
               THEN WithTop(finish(b, t, "BaseTypes"), After(f, "BaseTypes"))
               ELSE WithTop(fin, [f EXCEPT !.sub = "loop", !.i = 1,
                                           !.prim = NULL])

\* The end of analyzeBaseClassesImpl with the primary base put last.
setSuperAndBasesLast(s) ==
  LET f == Top(s)
      t == f.t
      primaryBase == IF decl(t).kind = "Class" /\ f.prim = NULL /\ t # "Object"
                     THEN "Object" ELSE f.prim
      s1 == [s EXCEPT !.ty[t].super = primaryBase,
                      !.ty[t].bases = IF primaryBase # NULL
                                      THEN @ \o <<primaryBase>> ELSE @]
  IN WithTop(finish(s1, t, "BaseTypes"), After(f, "BaseTypes"))

\* The end of analyzeBaseClassesImpl, after the loop: Object as the default
\* super of a class, setSuper, the primary base moved to the front.
setSuperAndBases(s) ==
  LET f == Top(s)
      t == f.t
      primaryBase == IF decl(t).kind = "Class" /\ f.prim = NULL /\ t # "Object"
                     THEN "Object" ELSE f.prim
      s1 == [s EXCEPT !.ty[t].super = primaryBase,
                      !.ty[t].bases = IF primaryBase # NULL
                                      THEN <<primaryBase>> \o @ ELSE @]
  IN WithTop(finish(s1, t, "BaseTypes"), After(f, "BaseTypes"))

\* One iteration of the loop, up to the recursive analysis of the base.
resolveBase(s) ==
  LET f == Top(s)
      t == f.t
      b == decl(t).bases[f.i]
  IN IF f.i > Len(decl(t).bases) THEN setSuperAndBases(s)
     ELSE IF b = "?" THEN implFail(Emit(s, "UndefinedType", t))
     ELSE IF ~IsType(b) THEN implFail(Emit(s, "CannotInherit", t))
     ELSE IF decl(b).isTemplate /\ ~isFromTemplate(t)
          THEN implFail(Emit(s, "BaseIsTemplate", t))
     ELSE LET s1 == IF decl(b).isFinal THEN Emit(s, "BaseIsFinal", t) ELSE s
          IN Call(WithTop(s1, [f EXCEPT !.sub = "wait"]), b, "PrepMemberLookup")

\* The kind rules: whether a base of kind baseKind becomes the primary base
\* of a type of kind dtype whose primary base so far is primaryBase.
isPrimary(dtype, baseKind, primaryBase) ==
  CASE dtype = "Class" -> baseKind = "Class" /\ primaryBase = NULL
    [] dtype = "Struct" ->
         baseKind \in {"Struct", "Protocol"} /\ primaryBase = NULL
    [] dtype = "Interface" ->
         baseKind \in {"Interface", "Protocol"} /\ primaryBase = NULL
    [] OTHER -> FALSE

\* The kind rules: the diagnostic of a base, or NULL.
kindError(dtype, baseKind, primaryBase) ==
  CASE dtype = "Class" ->
         IF baseKind = "Class"
         THEN IF primaryBase = NULL THEN NULL ELSE "SingleConcreteSupertype"
         ELSE IF baseKind # "Interface" THEN "ClassBaseKind" ELSE NULL
    [] dtype = "Struct" ->
         IF baseKind \notin {"Struct", "Protocol"} THEN "StructBaseKind"
         ELSE IF primaryBase = NULL THEN NULL ELSE "StructSingleSupertype"
    [] dtype = "Interface" ->
         IF baseKind \notin {"Interface", "Protocol"} THEN "InterfaceBaseKind"
         ELSE NULL
    [] OTHER -> "IllegalState"

\* The rest of the iteration, after the analysis of the base returned r.
addBase(s, r) ==
  LET f == Top(s)
      t == f.t
      b == decl(t).bases[f.i]
      err == kindError(decl(t).kind, decl(b).kind, f.prim)
      s1 == IF err = NULL THEN s ELSE Emit(s, err, t)
  IN IF ~r THEN implFail(s)
     ELSE IF isPrimary(decl(t).kind, decl(b).kind, f.prim)
          THEN WithTop(s1, [f EXCEPT !.prim = b, !.i = @ + 1, !.sub = "loop"])
          ELSE WithTop([s1 EXCEPT !.ty[t].bases = Append(@, b)],
                       [f EXCEPT !.i = @ + 1, !.sub = "loop"])

-----------------------------------------------------------------------------
(* Field, Converter, Constructor and Method passes.                         *)

NullSlot == [name |-> NULL, index |-> -1, rindex |-> -1]

\* CompositeType::instanceFieldCount
instanceFieldCount(s, t) ==
  IF s.ty[t].super # NULL THEN Len(s.ty[t].instanceFields) - 1
  ELSE Len(s.ty[t].instanceFields)

\* CompositeType::instanceFieldCountRecursive
RECURSIVE instanceFieldCountRecursive(_, _)
instanceFieldCountRecursive(s, t) ==
  IF t = NULL THEN 0
  ELSE instanceFieldCount(s, t) + instanceFieldCountRecursive(s, s.ty[t].super)

\* analyzeFields after the analysis of the super: the slot reserved for the
\* superclass and the start of the recursive index.
reserveSuperSlot(s) ==
  LET f == Top(s)
      t == f.t
      super == s.ty[t].super
  IN IF super # NULL
     THEN WithTop([s EXCEPT !.ty[t].instanceFields = Append(@, NullSlot)],
                  [f EXCEPT !.sub = "loop", !.i = 1,
                            !.n = instanceFieldCountRecursive(s, super)])
     ELSE WithTop(s, [f EXCEPT !.sub = "loop", !.i = 1, !.n = 0])

\* analyzeFields up to the analysis of the super.
analyzeFields(s) ==
  LET f == Top(s)
      t == f.t
      b == begin(s, t, "Field", FALSE)
      super == s.ty[t].super
  IN IF ~beginOk(s, t, "Field") THEN WithTop(b, After(f, "Field"))
     ELSE IF super # NULL /\ ~isFinished(s, super, "Field")
          THEN Call(WithTop(b, [f EXCEPT !.sub = "wait"]), super,
                    "PrepTypeComparison")
          ELSE reserveSuperSlot(b)

\* A field needs storage unless it is a let with a constant initializer.
isStorageRequired(fd) == ~(fd.isLet /\ fd.hasInit /\ fd.constInit)

\* The loop body of analyzeFields after analyzeValueDefn: slot allocation.
allocateField(s) ==
  LET f == Top(s)
      t == f.t
      fd == decl(t).fields[f.i]
      s1 == IF isStorageRequired(fd) /\ decl(t).kind = "Interface"
            THEN Emit(s, "DataMemberInInterface", t) ELSE s
      slot == [name |-> fd.name, index |-> Len(s.ty[t].instanceFields),
               rindex |-> f.n]
  IN IF ~isStorageRequired(fd)
     THEN WithTop(s1, [f EXCEPT !.i = @ + 1, !.sub = "loop"])
     ELSE IF ~fd.isStatic
          THEN WithTop([s1 EXCEPT !.ty[t].instanceFields = Append(@, slot)],
                       [f EXCEPT !.i = @ + 1, !.n = @ + 1, !.sub = "loop"])
          ELSE WithTop([s1 EXCEPT !.ty[t].staticFields = Append(@, fd.name)],
                       [f EXCEPT !.i = @ + 1, !.sub = "loop"])

\* The loop of analyzeFields: analyzeValueDefn prepares the type of the
\* field for type comparison; after the last field the pass is finished.
analyzeField(s) ==
  LET f == Top(s)
      t == f.t
      fd == decl(t).fields[f.i]
  IN IF f.i > Len(decl(t).fields)
     THEN WithTop(finish(s, t, "Field"), After(f, "Field"))
     ELSE IF IsType(fd.type)
          THEN Call(WithTop(s, [f EXCEPT !.sub = "fieldWait"]), fd.type,
                    "PrepTypeComparison")
          ELSE allocateField(s)

\* analyzeConverters
analyzeConverters(s) ==
  LET f == Top(s)
      t == f.t
      b == begin(s, t, "Converter", FALSE)
      cs == decl(t).coerce
      ok(c) == c.nonVoid /\ c.isStatic /\ c.params = 1
      RECURSIVE collect(_)
      collect(k) == IF k > Len(cs) THEN <<>>
                    ELSE (IF ok(cs[k]) THEN <<cs[k].name>> ELSE <<>>)
                         \o collect(k + 1)
      s1 == IF decl(t).kind \in {"Class", "Struct"}
            THEN [b EXCEPT !.ty[t].coercers = @ \o collect(1)] ELSE b
  IN IF ~beginOk(s, t, "Converter") THEN WithTop(b, After(f, "Converter"))
     ELSE WithTop(finish(s1, t, "Converter"), After(f, "Converter"))

\* CompositeType::defaultConstructor: a constructor without required
\* parameters, declared or synthesized.
hasDefaultConstructor(s, t) ==
  \/ \E k \in 1..Len(decl(t).ctors) : decl(t).ctors[k] = 0
  \/ \E k \in 1..Len(s.ty[t].ctors) : s.ty[t].ctors[k].required = <<>>

\* createDefaultConstructor that takes every public field for required.
createDefaultConstructorAllRequired(s, t) ==
  LET fds == decl(t).fields
      isVar(fd) == ~fd.isStatic /\ ~fd.isLet
      assigned(fd) == isVar(fd) /\ fd.isPublic
      names(q) == [k \in 1..Len(q) |-> q[k].name]
      ctor == [ synthetic |-> TRUE,
                required |-> names(SelectSeq(fds, assigned)),
                optional |-> <<>>,
                assigns |-> names(SelectSeq(fds, assigned)) ]
  IN IF s.ty[t].super # NULL /\ ~hasDefaultConstructor(s, s.ty[t].super)
     THEN Emit(s, "NoDefaultConstructor", t)
     ELSE [s EXCEPT !.ty[t].ctors = Append(@, ctor)]

\* createDefaultConstructor: the parameters and the body from the fields.
createDefaultConstructor(s, t) ==
  LET super == s.ty[t].super
      fds == decl(t).fields
      isVar(fd) == ~fd.isStatic /\ ~fd.isLet
      hasDefault(fd) == fd.hasInit \/ fd.nullInit
      req(fd) == isVar(fd) /\ fd.isPublic /\ ~hasDefault(fd)
      opt(fd) == isVar(fd) /\ fd.isPublic /\ hasDefault(fd)
      unimpl(fd) == isVar(fd) /\ ~fd.isPublic /\ ~hasDefault(fd)
                       /\ t # "Object"
      assigned(fd) == isVar(fd) /\ fd.isPublic
      names(q) == [k \in 1..Len(q) |-> q[k].name]
      ctor == [ synthetic |-> TRUE,
                required |-> names(SelectSeq(fds, req)),
                optional |-> names(SelectSeq(fds, opt)),
                assigns |-> names(SelectSeq(fds, assigned)) ]
      s1 == IF \E k \in 1..Len(fds) : unimpl(fds[k])
            THEN Emit(s, "UnimplementedDefaultInit", t) ELSE s
  IN IF super # NULL /\ ~hasDefaultConstructor(s, super)
     THEN Emit(s, "NoDefaultConstructor", t)
     ELSE [s1 EXCEPT !.ty[t].ctors = Append(@, ctor)]

\* analyzeConstructors that synthesizes a default constructor for every
\* class and struct, declared constructors or not.
checkConstructorsAlways(s) ==
  LET f == Top(s)
      t == f.t
      s1 == IF decl(t).kind \in {"Class", "Struct"}
            THEN createDefaultConstructor(s, t) ELSE s
  IN WithTop(finish(s1, t, "Constructor"), After(f, "Constructor"))

\* analyzeConstructors after the superclass constructors: the declared
\* constructors and creators, the default constructor, finish.
checkConstructors(s) ==
  LET f == Top(s)
      t == f.t
      hasConstructors == decl(t).ctors # <<>> \/ decl(t).hasCreate
      s1 == IF decl(t).kind \in {"Class", "Struct"} /\ ~hasConstructors
            THEN createDefaultConstructor(s, t) ELSE s
  IN WithTop(finish(s1, t, "Constructor"), After(f, "Constructor"))

\* analyzeConstructors up to the analysis of the superclass constructors.
analyzeConstructors(s) ==
  LET f == Top(s)
      t == f.t
      b == begin(s, t, "Constructor", FALSE)
      super == s.ty[t].super
  IN IF ~beginOk(s, t, "Constructor") THEN WithTop(b, After(f, "Constructor"))
     ELSE IF /\ decl(t).kind \in {"Class", "Struct"}
             /\ super # NULL
             /\ ~isFinished(s, super, "Constructor")
             /\ ~isRunning(s, super, "Constructor")
          THEN Call(WithTop(b, [f EXCEPT !.sub = "wait"]), super,
                    "PrepConstruction")
          ELSE checkConstructors(b)

\* analyzeConstructors after the analysis of the super returned r.
superConstructorsDone(s, r) ==
  IF ~r THEN WithTop(s, Fail(Top(s))) ELSE checkConstructors(s)

\* analyzeMethods
analyzeMethods(s) ==
  LET f == Top(s)
      t == f.t
      b == begin(s, t, "Method", FALSE)
      ms == decl(t).methods
      iface == decl(t).kind \in {"Interface", "Protocol"}
      s1 == IF iface /\ \E k \in 1..Len(ms) : fdef(ms[k]).isFinal
            THEN Emit(b, "FinalInInterface", t) ELSE b
      s2 == IF iface /\ \E k \in 1..Len(ms) :
                          ~fdef(ms[k]).isFinal /\ ~fdef(ms[k]).isPublic
            THEN Emit(s1, "NonPublicInInterface", t) ELSE s1
      dups == {ms[j] : j \in {j \in 1..Len(ms) : \E k \in (j + 1)..Len(ms) :
                 /\ fdef(ms[j]).name = fdef(ms[k]).name
                 /\ fdef(ms[j]).sig = fdef(ms[k]).sig}}
      s3 == [s2 EXCEPT !.diag = @ \cup
               {[kind |-> "SignatureConflict", target |-> t, cites |-> {m}] : m \in dups}]
  IN IF ~beginOk(s, t, "Method") THEN WithTop(b, After(f, "Method"))
     ELSE WithTop(finish(s3, t, "Method"), After(f, "Method"))

-----------------------------------------------------------------------------
(* Overloading: the instance method table and the interface tables.         *)

\* copyBaseClassMethods that copies nothing.
copyNoMethods(s, t) == s

\* copyBaseClassMethods
copyBaseClassMethods(s, t) ==
  LET super == s.ty[t].super
      superClass == IF /\ super = NULL
                       /\ decl(t).kind \in {"Interface", "Struct"}
                       /\ s.ty[t].bases # <<>>
                    THEN s.ty[t].bases[1] ELSE super
  IN IF superClass # NULL
     THEN [s EXCEPT !.ty[t].instanceMethods =
                       @ \o s.ty[superClass].instanceMethods]
     ELSE s

\* CompositeType::ancestorClasses: the bases of t from position k on and
\* their ancestors, added to out in the order they are first met.
RECURSIVE ancestorClasses(_, _, _, _)
ancestorClasses(s, out, t, k) ==
  IF k > Len(s.ty[t].bases) THEN out
  ELSE LET b == s.ty[t].bases[k]
       IN IF b \in Range(out) THEN ancestorClasses(s, out, t, k + 1)
          ELSE ancestorClasses(s, ancestorClasses(s, Append(out, b), b, 1),
                               t, k + 1)

\* The absent itable (a NULL InterfaceTable pointer).
NoTable == [interfaceType |-> NULL, methods |-> <<>>]

\* The itable of type t for interface itype, or NoTable.
implementationOf(s, t, itype) ==
  LET ks == {k \in 1..Len(s.ty[t].interfaces) :
               s.ty[t].interfaces[k].interfaceType = itype}
  IN IF ks = {} THEN NoTable
     ELSE s.ty[t].interfaces[CHOOSE k \in ks : \A k2 \in ks : k <= k2]

\* CompositeType::findBaseImplementationOf: the first itable for itype among
\* the bases of t from position k on and, through each, its own bases.
RECURSIVE findBaseImplementationOf(_, _, _, _)
findBaseImplementationOf(s, t, itype, k) ==
  IF k > Len(s.ty[t].bases) THEN NoTable
  ELSE LET b == s.ty[t].bases[k]
           own == implementationOf(s, b, itype)
           up == findBaseImplementationOf(s, b, itype, 1)
       IN IF own # NoTable THEN own
          ELSE IF up # NoTable THEN up
          ELSE findBaseImplementationOf(s, t, itype, k + 1)

\* createInterfaceTables: the ancestors that get an itable of their own.
interfaceTypes(s, t) ==
  LET ancestors == ancestorClasses(s, <<>>, t, 1)
      firsts == {s.ty[b].bases[1] :
                   b \in {b \in Range(ancestors) \cup {t} : s.ty[b].bases # <<>>}}
  IN SelectSeq(ancestors, LAMBDA a : a \notin firsts)

\* createInterfaceTables.  The two DASSERTs are recorded as diagnostics and
\* the analysis goes on, as it does in a build without assertions.
createInterfaceTables(s, t) ==
  LET its == interfaceTypes(s, t)
      parentImpl(itype) == findBaseImplementationOf(s, t, itype, 1)
      table(itype) ==
        [ interfaceType |-> itype,
          methods |-> IF parentImpl(itype) # NoTable
                      THEN parentImpl(itype).methods
                      ELSE s.ty[itype].instanceMethods ]
      s1 == IF \E k \in 1..Len(its) : decl(its[k]).kind # "Interface"
            THEN Emit(s, "AssertionFailed", t) ELSE s
      s2 == IF \E k \in 1..Len(its) :
                 /\ parentImpl(its[k]) # NoTable
                 /\ Len(s.ty[its[k]].instanceMethods) #
                      Len(parentImpl(its[k]).methods)
            THEN Emit(s1, "TableSizeAssertionFailed", t) ELSE s1
  IN [s2 EXCEPT !.ty[t].interfaces =
                   @ \o [k \in 1..Len(its) |-> table(its[k])]]

\* FunctionDefn::canOverride, the oracle of the function layer.
canOverride(f, m) == fdef(m).sig \in fdef(f).over

\* findOverride that returns the last of the overrides that can override m.
findLastOverride(m, overrides) ==
  LET ks == {k \in 1..Len(overrides) : canOverride(overrides[k], m)}
  IN IF ks = {} THEN NULL
     ELSE overrides[CHOOSE k \in ks : \A k2 \in ks : k >= k2]

\* findOverride: the first of the overrides that can override m, or NULL.
findOverride(m, overrides) ==
  LET ks == {k \in 1..Len(overrides) : canOverride(overrides[k], m)}
  IN IF ks = {} THEN NULL
     ELSE overrides[CHOOSE k \in ks : \A k2 \in ks : k <= k2]

\* Table k of type t: the instance methods for k = 0, else the k-th itable.
tableOf(s, t, k) ==
  IF k = 0 THEN s.ty[t].instanceMethods ELSE s.ty[t].interfaces[k].methods

setSlot(s, t, k, i, m) ==
  IF k = 0 THEN [s EXCEPT !.ty[t].instanceMethods[i] = m]
  ELSE [s EXCEPT !.ty[t].interfaces[k].methods[i] = m]

\* The loop body of overrideMethods that warns of a hidden method only when
\* the hidden method has a body.
overrideSlotHideBodied(s, t, k, overrides, canHide, i) ==
  LET m == tableOf(s, t, k)[i]
      newMethod == findOverride(m, overrides)
      s1 == setSlot(s, t, k, i, newMethod)
      s2 == IF canHide /\ s1.fn[newMethod].dispatchIndex < 0
            THEN [s1 EXCEPT !.fn[newMethod].dispatchIndex = i - 1] ELSE s1
      s3 == IF fdef(m).hasBody /\ ~fdef(newMethod).isOverride
            THEN EmitCiting(s2, "ShouldBeOverride", newMethod, {m}) ELSE s2
  IN IF fdef(m).name # fdef(overrides[1]).name THEN s
     ELSE IF newMethod # NULL
          THEN [s3 EXCEPT !.fn[newMethod].overriddenMethods = @ \cup {m}]
          ELSE IF canHide /\ fdef(m).hasBody
               THEN EmitCiting(s, "Hidden", m, Range(overrides))
               ELSE s

\* The loop body of overrideMethods that suggests the override keyword
\* whether the overridden method has a body or not.
overrideSlotSuggestAlways(s, t, k, overrides, canHide, i) ==
  LET m == tableOf(s, t, k)[i]
      newMethod == findOverride(m, overrides)
      s1 == setSlot(s, t, k, i, newMethod)
      s2 == IF canHide /\ s1.fn[newMethod].dispatchIndex < 0
            THEN [s1 EXCEPT !.fn[newMethod].dispatchIndex = i - 1] ELSE s1
      s3 == IF ~fdef(newMethod).isOverride
            THEN EmitCiting(s2, "ShouldBeOverride", newMethod, {m}) ELSE s2
  IN IF fdef(m).name # fdef(overrides[1]).name THEN s
     ELSE IF newMethod # NULL
          THEN [s3 EXCEPT !.fn[newMethod].overriddenMethods = @ \cup {m}]
          ELSE IF canHide THEN EmitCiting(s, "Hidden", m, Range(overrides))
               ELSE s

\* The body of the loop of overrideMethods for slot i (from 1) of table k.
overrideSlot(s, t, k, overrides, canHide, i) ==
  LET m == tableOf(s, t, k)[i]
      newMethod == findOverride(m, overrides)
      s1 == setSlot(s, t, k, i, newMethod)
      s2 == IF canHide /\ s1.fn[newMethod].dispatchIndex < 0
            THEN [s1 EXCEPT !.fn[newMethod].dispatchIndex = i - 1] ELSE s1
      s3 == IF fdef(m).hasBody /\ ~fdef(newMethod).isOverride
            THEN EmitCiting(s2, "ShouldBeOverride", newMethod, {m}) ELSE s2
  IN IF fdef(m).name # fdef(overrides[1]).name THEN s
     ELSE IF newMethod # NULL
          THEN [s3 EXCEPT !.fn[newMethod].overriddenMethods = @ \cup {m}]
          ELSE IF canHide THEN EmitCiting(s, "Hidden", m, Range(overrides))
               ELSE s

\* overrideMethods on table k of t, from slot i on.
RECURSIVE overrideMethods(_, _, _, _, _, _)
overrideMethods(s, t, k, overrides, canHide, i) ==
  IF i > Len(tableOf(s, t, k)) THEN s
  ELSE overrideMethods(overrideSlot(s, t, k, overrides, canHide, i),
                       t, k, overrides, canHide, i + 1)

\* ensureUniqueSignatures
ensureUniqueSignatures(s, t, methods) ==
  LET clash == {methods[j] : j \in {j \in 1..Len(methods) :
                  \E i \in 1..(j - 1) : fdef(methods[i]).sig = fdef(methods[j]).sig}}
  IN [s EXCEPT !.diag = @ \cup
        {[kind |-> "SignatureConflict", target |-> t, cites |-> {m}] :
           m \in clash}]

\* overrideMethods on the itables of t, from itable k on.
RECURSIVE overrideInterfaces(_, _, _, _)
overrideInterfaces(s, t, methods, k) ==
  IF k > Len(s.ty[t].interfaces) THEN s
  ELSE overrideInterfaces(overrideMethods(s, t, k, methods, FALSE, 1),
                          t, methods, k + 1)

\* The body of the loop of overridePropertyAccessors for slot i (from 1) of
\* table k.
overrideAccessorSlot(s, t, k, prop, accessors, canHide, i) ==
  LET m == tableOf(s, t, k)[i]
      newAccessor == findOverride(m, accessors)
      s1 == setSlot(s, t, k, i, newAccessor)
      s2 == IF canHide /\ s1.fn[newAccessor].dispatchIndex < 0
            THEN [s1 EXCEPT !.fn[newAccessor].dispatchIndex = i - 1] ELSE s1
  IN IF fdef(m).prop = NULL THEN s
     ELSE IF fdef(m).name # fdef(accessors[1]).name \/ fdef(m).prop # prop.name
          THEN s
          ELSE IF newAccessor # NULL
               THEN [s2 EXCEPT !.fn[newAccessor].overriddenMethods = @ \cup {m}]
               ELSE EmitCiting(s, "InvalidAccessorOverride", m, Range(accessors))

\* overridePropertyAccessors on table k of t, from slot i on.
RECURSIVE overridePropertyAccessors(_, _, _, _, _, _, _)
overridePropertyAccessors(s, t, k, prop, accessors, canHide, i) ==
  IF i > Len(tableOf(s, t, k)) THEN s
  ELSE overridePropertyAccessors(
         overrideAccessorSlot(s, t, k, prop, accessors, canHide, i),
         t, k, prop, accessors, canHide, i + 1)

\* overrideMembers for the getters or the setters of a property: the
\* instance methods (table 0, canHide) and then the itables, from table k on.
RECURSIVE overrideAccessors(_, _, _, _, _)
overrideAccessors(s, t, prop, accessors, k) ==
  IF k > Len(s.ty[t].interfaces) THEN s
  ELSE overrideAccessors(
         overridePropertyAccessors(s, t, k, prop, accessors, k = 0, 1),
         t, prop, accessors, k + 1)

\* overrideMembers: the symbol table entries of the properties of t, from
\* the j-th declared property on.
RECURSIVE overrideProperties(_, _, _)
overrideProperties(s, t, j) ==
  LET prop == decl(t).props[j]
      getters == IF prop.getter # NULL THEN <<prop.getter>> ELSE <<>>
      setters == IF prop.setter # NULL THEN <<prop.setter>> ELSE <<>>
      s1 == IF getters # <<>>
            THEN overrideAccessors(ensureUniqueSignatures(s, t, getters),
                                   t, prop, getters, 0)
            ELSE s
      s2 == IF setters # <<>>
            THEN overrideAccessors(ensureUniqueSignatures(s1, t, setters),
                                   t, prop, setters, 0)
            ELSE s1
  IN IF j > Len(decl(t).props) THEN s ELSE overrideProperties(s2, t, j + 1)

\* overrideMembers: the entries of the symbol table of t from the entry of
\* the j-th declared method on, each name once, at its first declaration,
\* and then the entries of the properties.
RECURSIVE overrideMembers(_, _, _)
overrideMembers(s, t, j) ==
  LET ms == decl(t).methods
      name == fdef(ms[j]).name
      methods == SelectSeq(ms, LAMBDA m : fdef(m).name = name)
      s1 == ensureUniqueSignatures(s, t, methods)
      s2 == overrideMethods(s1, t, 0, methods, TRUE, 1)
      s3 == overrideInterfaces(s2, t, methods, 1)
  IN IF j > Len(ms) THEN overrideProperties(s, t, 1)
     ELSE IF \E i \in 1..(j - 1) : fdef(ms[i]).name = name
          THEN overrideMembers(s, t, j + 1)
          ELSE overrideMembers(s3, t, j + 1)

\* addNewMethods for the getter and the setter of the properties of t, from
\* the j-th declared property on.
RECURSIVE addNewAccessors(_, _, _)
addNewAccessors(s, t, j) ==
  LET prop == decl(t).props[j]
      add(s0, a) ==
        IF a # NULL /\ ~fdef(a).isFinal /\ s0.fn[a].dispatchIndex < 0
        THEN [s0 EXCEPT !.fn[a].dispatchIndex = Len(s0.ty[t].instanceMethods),
                        !.ty[t].instanceMethods = Append(@, a)]
        ELSE s0
  IN IF j > Len(decl(t).props) THEN s
     ELSE addNewAccessors(add(add(s, prop.getter), prop.setter), t, j + 1)

\* addNewMethods that numbers an appended method one slot too high.
RECURSIVE addNewMethodsOffByOne(_, _, _)
addNewMethodsOffByOne(s, t, j) ==
  LET ms == decl(t).methods
      m == ms[j]
      s2 == IF ~fdef(m).isFinal /\ s.fn[m].dispatchIndex < 0
            THEN [s EXCEPT
                    !.fn[m].dispatchIndex = Len(s.ty[t].instanceMethods) + 1,
                    !.ty[t].instanceMethods = Append(@, m)]
            ELSE s
  IN IF j > Len(ms) THEN addNewAccessors(s, t, 1)
     ELSE addNewMethodsOffByOne(s2, t, j + 1)

\* addNewMethods that appends the final methods as well.
RECURSIVE addNewMethodsWithFinal(_, _, _)
addNewMethodsWithFinal(s, t, j) ==
  LET ms == decl(t).methods
      m == ms[j]
      s2 == IF s.fn[m].dispatchIndex < 0
            THEN [s EXCEPT
                    !.fn[m].dispatchIndex = Len(s.ty[t].instanceMethods),
                    !.ty[t].instanceMethods = Append(@, m)]
            ELSE s
  IN IF j > Len(ms) THEN addNewAccessors(s, t, 1)
     ELSE addNewMethodsWithFinal(s2, t, j + 1)

\* addNewMethods, from the j-th declared method on; the accessors of the
\* properties follow the methods.
RECURSIVE addNewMethods(_, _, _)
addNewMethods(s, t, j) ==
  LET ms == decl(t).methods
      m == ms[j]
      s1 == IF fdef(m).isUndefined /\ s.fn[m].overriddenMethods = {}
            THEN EmitCiting(s, "UndefWithoutOverride", t, {m}) ELSE s
      s2 == IF ~fdef(m).isFinal /\ s1.fn[m].dispatchIndex < 0
            THEN [s1 EXCEPT
                    !.fn[m].dispatchIndex = Len(s1.ty[t].instanceMethods),
                    !.ty[t].instanceMethods = Append(@, m)]
            ELSE s1
  IN IF j > Len(ms) THEN addNewAccessors(s, t, 1)
     ELSE addNewMethods(s2, t, j + 1)

\* A method without a body that is not extern, intrinsic or undef.
lacksBody(m) ==
  /\ ~fdef(m).hasBody
  /\ ~fdef(m).isExtern
  /\ ~fdef(m).isIntrinsic
  /\ ~fdef(m).isUndefined

\* checkForRequiredMethods
checkForRequiredMethods(s, t) ==
  LET methods == s.ty[t].instanceMethods
      abstractMethods == {m \in Range(methods) : lacksBody(m)}
      itab == s.ty[t].interfaces
      unimp(k) == {m \in Range(itab[k].methods) : lacksBody(m)}
      bad == {k \in 1..Len(itab) : unimp(k) # {}}
      first == CHOOSE k \in bad : \A k2 \in bad : k <= k2
  IN IF decl(t).isAbstract THEN s
     ELSE IF abstractMethods # {}
          THEN IF decl(t).kind \in {"Struct", "Class"}
               THEN EmitCiting(s, "LacksDefinition", t, abstractMethods)
               ELSE s
          ELSE IF bad = {} THEN s
               ELSE EmitCiting(s, "LacksImplementation", t,
                               {itab[first].interfaceType} \cup unimp(first))

\* analyzeOverloading after the analysis of the bases.
buildTables(s) ==
  LET f == Top(s)
      t == f.t
      s1 == copyBaseClassMethods(s, t)
      s2 == createInterfaceTables(s1, t)
      s3 == overrideMembers(s2, t, 1)
      s4 == addNewMethods(s3, t, 1)
      s5 == checkForRequiredMethods(s4, t)
  IN WithTop(finish(s5, t, "Overloading"), After(f, "Overloading"))

\* analyzeOverloading up to the loop over the bases.
analyzeOverloading(s) ==
  LET f == Top(s)
      t == f.t
      b == begin(s, t, "Overloading", FALSE)
  IN IF ~beginOk(s, t, "Overloading") THEN WithTop(b, After(f, "Overloading"))
     ELSE WithTop(b, [f EXCEPT !.sub = "loop", !.i = 1])

\* The loop of analyzeOverloading: the next base is analyzed for evaluation
\* (the result is not looked at); after the last base the tables are built.
analyzeBase(s) ==
  LET f == Top(s)
      t == f.t
  IN IF f.i > Len(s.ty[t].bases) THEN buildTables(s)
     ELSE Call(WithTop(s, [f EXCEPT !.i = @ + 1]), s.ty[t].bases[f.i],
               "PrepEvaluation")

-----------------------------------------------------------------------------
(* FieldType and Completion.                                                *)

\* The declared type of the field in an instance field slot, or NULL.
slotType(t, slot) ==
  LET ks == {k \in 1..Len(decl(t).fields) : decl(t).fields[k].name = slot.name}
  IN IF ks = {} THEN NULL ELSE decl(t).fields[CHOOSE k \in ks : TRUE].type

\* The types analyzeFieldTypes analyzes for type generation, in order: the
\* super and the composite types of the instance fields.
fieldTypeCalls(s, t) ==
  LET fts == [k \in 1..Len(s.ty[t].instanceFields) |->
                slotType(t, s.ty[t].instanceFields[k])]
  IN (IF s.ty[t].super # NULL THEN <<s.ty[t].super>> ELSE <<>>)
       \o SelectSeq(fts, IsType)

\* analyzeFieldTypes up to its first recursive analysis.
analyzeFieldTypes(s) ==
  LET f == Top(s)
      t == f.t
      b == begin(s, t, "FieldType", TRUE)
  IN IF ~beginOk(s, t, "FieldType") THEN WithTop(b, After(f, "FieldType"))
     ELSE WithTop(b, [f EXCEPT !.sub = "loop", !.i = 1])

\* The recursive analyses of analyzeFieldTypes, then finish.
analyzeFieldType(s) ==
  LET f == Top(s)
      t == f.t
      calls == fieldTypeCalls(s, t)
  IN IF f.i > Len(calls)
     THEN WithTop(finish(s, t, "FieldType"), After(f, "FieldType"))
     ELSE Call(WithTop(s, [f EXCEPT !.i = @ + 1]), calls[f.i],
               "PrepTypeGeneration")

\* The types analyzeCompletely analyzes for code generation, in order: the
\* super and the member types.
completionCalls(s, t) ==
  (IF s.ty[t].super # NULL THEN <<s.ty[t].super>> ELSE <<>>) \o decl(t).nested

\* analyzeCompletely up to its first recursive analysis.
analyzeCompletely(s) ==
  LET f == Top(s)
      t == f.t
      b == begin(s, t, "Completion", TRUE)
  IN IF ~beginOk(s, t, "Completion") THEN WithTop(b, After(f, "Completion"))
     ELSE WithTop(b, [f EXCEPT !.sub = "loop", !.i = 1])

\* The recursive analyses of analyzeCompletely, then finish.
analyzeMember(s) ==
  LET f == Top(s)
      t == f.t
      calls == completionCalls(s, t)
  IN IF f.i > Len(calls)
     THEN WithTop(finish(s, t, "Completion"), After(f, "Completion"))
     ELSE Call(WithTop(s, [f EXCEPT !.i = @ + 1]), calls[f.i],
               "PrepCodeGeneration")

-----------------------------------------------------------------------------
(* The state machine.                                                       *)

NoRep == [phase |-> "none", t |-> NULL, task |-> NULL, r1 |-> TRUE, snap |-> NULL]

\* What a caller can observe of type t: its pass registry and the fields of
\* its CompositeType.
Observable(t) == [running |-> running[t], finished |-> finished[t], ty |-> ty[t]]

Init ==
  /\ prog \in {Programs[n] : n \in 1..NumPrograms}
  /\ running = [t \in Types |-> {}]
  /\ finished = [t \in Types |-> {}]
  /\ ty = [t \in Types |->
             [ super |-> NULL, bases |-> <<>>, instanceFields |-> <<>>,
               staticFields |-> <<>>, instanceMethods |-> <<>>,
               interfaces |-> <<>>, coercers |-> <<>>, ctors |-> <<>> ]]
  /\ fn = [m \in FnIds |-> [dispatchIndex |-> -1, overriddenMethods |-> {}]]
  /\ diag = {}
  /\ stack = <<>>
  /\ ret = TRUE
  /\ rep = NoRep

Idle == stack = <<>> /\ rep.phase \in {"none", "after"}

\* An outermost prepare(t, task).
Prepare(t, task) ==
  /\ Idle
  /\ Commit(Call(cur, t, task))
  /\ rep' = NoRep
  /\ UNCHANGED <<prog, ret>>

\* An outermost prepare(t, task) that is going to be repeated.
PrepareTwice(t, task) ==
  /\ Idle
  /\ Commit(Call(cur, t, task))
  /\ rep' = [NoRep EXCEPT !.phase = "first", !.t = t, !.task = task]
  /\ UNCHANGED <<prog, ret>>

\* The same prepare(t, task) again, directly after the first returned.
PrepareAgain ==
  /\ stack = <<>>
  /\ rep.phase = "between"
  /\ Commit(Call(cur, rep.t, rep.task))
  /\ rep' = [rep EXCEPT !.phase = "second"]
  /\ UNCHANGED <<prog, ret>>

\* analyze returns to its caller.
Return ==
  /\ stack # <<>>
  /\ stack[Len(stack)].pc = "return"
  /\ stack' = SubSeq(stack, 1, Len(stack) - 1)
  /\ ret' = stack[Len(stack)].rv
  /\ rep' = IF Len(stack) > 1 THEN rep
            ELSE IF rep.phase = "first"
                 THEN [rep EXCEPT !.phase = "between",
                                  !.r1 = stack[Len(stack)].rv,
                                  !.snap = Observable(rep.t)]
                 ELSE IF rep.phase = "second"
                      THEN [rep EXCEPT !.phase = "after"]
                      ELSE rep
  /\ UNCHANGED <<prog, running, finished, ty, fn, diag>>

\* The code the top activation executes next, up to its next recursive
\* analyze call, to the end of a pass, or to its return; r is what the last
\* recursive call returned.
passStep(s, r) ==
  LET f == Top(s)
      at == <<f.pc, f.sub>>
  IN CASE at = <<"ScopeCreation", "enter">> -> createMembers(s)
       [] at = <<"Attribute", "enter">> -> resolveAttributes(s)
       [] at = <<"NamingConflict", "enter">> -> checkNameConflicts(s)
       [] at = <<"BaseTypes", "enter">> -> analyzeBaseClasses(s)
       [] at = <<"BaseTypes", "loop">> -> resolveBase(s)
       [] at = <<"BaseTypes", "wait">> -> addBase(s, r)
       [] at = <<"MemberType", "enter">> -> analyzeMemberTypes(s)
       [] at = <<"Field", "enter">> -> analyzeFields(s)
       [] at = <<"Field", "wait">> -> reserveSuperSlot(s)
       [] at = <<"Field", "loop">> -> analyzeField(s)
       [] at = <<"Field", "fieldWait">> -> allocateField(s)
       [] at = <<"Converter", "enter">> -> analyzeConverters(s)
       [] at = <<"Constructor", "enter">> -> analyzeConstructors(s)
       [] at = <<"Constructor", "wait">> -> superConstructorsDone(s, r)
       [] at = <<"Method", "enter">> -> analyzeMethods(s)
       [] at = <<"Overloading", "enter">> -> analyzeOverloading(s)
       [] at = <<"Overloading", "loop">> -> analyzeBase(s)
       [] at = <<"FieldType", "enter">> -> analyzeFieldTypes(s)
       [] at = <<"FieldType", "loop">> -> analyzeFieldType(s)
       [] at = <<"Completion", "enter">> -> analyzeCompletely(s)
       [] at = <<"Completion", "loop">> -> analyzeMember(s)

\* runPasses from where the top activation stands: pass after pass, until
\* the activation calls analyze on another type or reaches its return.
RECURSIVE runToCall(_, _)
runToCall(s, r) ==
  IF Top(s).pc = "return" THEN s
  ELSE LET s1 == passStep(s, r)
       IN IF Len(s1.stack) > Len(s.stack) THEN s1 ELSE runToCall(s1, r)

\* The activations the call stack of the compiler has room for; a recursion
\* that needs more does not return.
MaxDepth == 6

\* The top activation runs on, to its next recursive call or to its return.
Analyze ==
  /\ stack # <<>>
  /\ stack[Len(stack)].pc # "return"
  /\ Len(runToCall(cur, ret).stack) <= MaxDepth
  /\ Commit(runToCall(cur, ret))
  /\ UNCHANGED <<prog, ret, rep>>

Targets == prog.targets

Next ==
  \/ \E t \in Targets, task \in Tasks : Prepare(t, task)
  \/ \E t \in Targets, task \in Tasks : PrepareTwice(t, task)
  \/ PrepareAgain
  \/ Return
  \/ Analyze

Spec == Init /\ [][Next]_vars

\* The calls of a compilation without the bookkeeping of repeated calls.
LiveNext ==
  \/ \E t \in Targets, task \in Tasks : Prepare(t, task)
  \/ Return
  \/ Analyze

\* The top activation can take a step: ENABLED <<Analyze \/ Return>>_vars.
CanStep ==
  /\ stack # <<>>
  /\ \/ stack[Len(stack)].pc = "return"
     \/ Len(runToCall(cur, ret).stack) <= MaxDepth

\* The analysis is sequential code: an activation that can run on does, and
\* an activation that has reached its return returns.  This is
\* WF_vars(Analyze \/ Return) with its ENABLED written out as CanStep.
Fairness == []<>(~CanStep) \/ []<><<Analyze \/ Return>>_vars

LiveSpec == Init /\ [][LiveNext]_vars /\ Fairness

-----------------------------------------------------------------------------
(* Properties.                                                              *)

\* Pass p precedes pass q in the enumeration order.
Precedes(p, q) == IndexOf(PassOrder, p) < IndexOf(PassOrder, q)

\* The passes that runPasses tries only after NamingConflict and BaseTypes.
LatePasses ==
  {"Converter", "Constructor", "MemberType", "Field", "FieldType", "Method",
   "Overloading", "Completion"}

\* C1 as stated: a finished pass has every pass before it in the
\* enumeration order finished as well.
C1_PrefixClosed ==
  \A t \in Types : \A p \in finished[t] : \A q \in Passes :
    Precedes(q, p) => q \in finished[t]

\* C1, amended: the finished set is closed under the dependencies the pass
\* sets and runPasses establish.  A finished pass among Converter ..
\* Completion has BaseTypes and NamingConflict finished; FieldType has Field
\* finished; Method has Converter, MemberType and Field finished;
\* Overloading has Method finished; Completion has Overloading finished.
C1_PassDependencies ==
  \A t \in Types :
    /\ finished[t] \cap LatePasses # {} =>
         {"BaseTypes", "NamingConflict"} \subseteq finished[t]
    /\ "FieldType" \in finished[t] => "Field" \in finished[t]
    /\ "Method" \in finished[t] =>
         {"Converter", "MemberType", "Field"} \subseteq finished[t]
    /\ "Overloading" \in finished[t] => "Method" \in finished[t]
    /\ "Completion" \in finished[t] => "Overloading" \in finished[t]

\* C1: a type whose Constructor pass is finished and whose Converter pass
\* is not, and a type prepared through all of its passes.
C1_Witness ==
  /\ \E t \in Types : /\ "Constructor" \in finished[t]
                       /\ "Converter" \notin finished[t]
                       /\ "FieldType" \in finished[t]
  /\ \E t \in Types : finished[t] = Passes

\* C2 as stated: a prepare(T, task) repeated directly after the first
\* leaves the pass registry and the CompositeType fields of T as the first
\* call left them.
C2_Idempotent == rep.phase = "after" => Observable(rep.t) = rep.snap

\* C3: every prepare call terminates, also over types that refer to each
\* other in a cycle: whenever activations are on the call stack, the stack
\* empties again (and so never outgrows the room it has).
C3_Terminates == (stack # <<>>) ~> (stack = <<>>)

\* C3: a type is entered a second time while one of its own passes is
\* running further down the stack (a cycle of bases, fields or members).
C3_Witness ==
  \E i, j \in 1..Len(stack) :
    /\ i < j
    /\ stack[i].t = stack[j].t
    /\ running[stack[i].t] # {}

\* The program is class X : Y; class Y : X.
IsCircular == prog = ProgCircular

CircularDiags == {d \in diag : d.kind = "CircularInheritance"}

\* In the circular program BaseTypes never finishes without the diagnostic,
\* and an activation that had the BaseTypes pass to run returns false.
C4_Fails ==
  IsCircular =>
    /\ \A t \in {"X", "Y"} :
         "BaseTypes" \in finished[t] => CircularDiags # {}
    /\ \A k \in 1..Len(stack) :
         stack[k].pc = "return" /\ "BaseTypes" \in stack[k].run =>
           ~stack[k].rv

\* In the circular program a step that emits a diagnostic emits the circular
\* inheritance one, from an activation called by the BaseTypes pass of the
\* type analyzed second, while that pass is running; the activation fails.
C4_Emits ==
  IsCircular /\ diag' # diag =>
    /\ diag' \ diag = CircularDiags'
    /\ Len(stack') = 3
    /\ stack'[2].t # stack'[1].t
    /\ stack'[2].pc = "BaseTypes"
    /\ "BaseTypes" \in running'[stack'[2].t]
    /\ stack'[3].pc = "return" /\ ~stack'[3].rv

\* C4: for class X : Y; class Y : X, preparing either class emits the
\* circular-inheritance diagnostic during the BaseTypes pass of the class
\* that is analyzed second, and the BaseTypes pass returns failure.
C4_CircularInheritance == [](C4_Fails) /\ [][C4_Emits]_vars

\* C4: the outermost prepare of the circular program has returned false
\* with the diagnostic emitted and BaseTypes attempted on both classes.
C4_Witness ==
  /\ IsCircular
  /\ stack = <<>>
  /\ ~ret
  /\ CircularDiags # {}
  /\ "BaseTypes" \in finished["X"] \cap finished["Y"]

\* The running set and the finished set of every pass registry are disjoint.
C5_Disjoint == \A t \in Types : running[t] \cap finished[t] = {}

\* begin(pass), called in the current state on any type and pass, marks the
\* pass running exactly when it is neither running nor finished, then
\* returns true, and otherwise leaves the registry as it is.
C5_Begin ==
  \A t \in Types, pass \in Passes, quiet \in BOOLEAN :
    LET s2 == begin(cur, t, pass, quiet)
        fresh == pass \notin running[t] \cup finished[t]
    IN /\ s2.finished[t] = finished[t]
       /\ s2.running[t] = IF fresh THEN running[t] \cup {pass} ELSE running[t]
       /\ beginOk(cur, t, pass) <=> fresh

\* A step marks running only passes that were not started, and a finished
\* pass stays finished.
C5_Steps ==
  \A t \in Types :
    /\ (running'[t] \ running[t]) \cap finished[t] = {}
    /\ finished[t] \subseteq finished'[t]
    /\ running'[t] \cap finished'[t] = {}

\* C5: every pass of every type is in exactly one of the states not
\* started, running, finished: the running and the finished set are
\* disjoint, and begin marks a pass running only when it is in neither.
C5_ThreeStates == [](C5_Disjoint /\ C5_Begin) /\ [][C5_Steps]_vars

\* C5: a type with a pass running, a pass finished and a pass not started.
C5_Witness ==
  \E t \in Types :
    /\ running[t] # {}
    /\ finished[t] # {}
    /\ running[t] \cup finished[t] # Passes

\* Slot i of the vtable of a is inherited from, or overrides, slot i of the
\* vtable of b, for the types tys and the methods fns of a state.
SlotFollows(tys, fns, a, b, i) ==
  \/ tys[a].instanceMethods[i] = tys[b].instanceMethods[i]
  \/ tys[b].instanceMethods[i] \in
       fns[tys[a].instanceMethods[i]].overriddenMethods

\* C6 as stated: once Overloading is finished on A, every slot of A's
\* vtable is inherited from, or overrides, the same slot of the vtable of
\* A's primary base.
C6_EverySlot ==
  \A a \in Types :
    "Overloading" \in finished[a] /\ ty[a].super # NULL =>
      \A i \in 1..Len(ty[a].instanceMethods) :
        /\ i <= Len(ty[ty[a].super].instanceMethods)
        /\ SlotFollows(ty, fn, a, ty[a].super, i)

\* The step that finishes the Overloading pass of type a.
OverloadingFinishes(a) == "Overloading" \in finished'[a] \ finished[a]

\* C6, amended: when the Overloading pass of A finishes, the vtable of A is
\* at least as long as the vtable of A's primary base B, and every slot
\* below the length of B's vtable is inherited from, or overrides, the same
\* slot of B; the slots above it are the methods A appends.
C6_Monotone ==
  [][\A a \in Types :
       OverloadingFinishes(a) /\ ty'[a].super # NULL =>
         LET b == ty'[a].super
         IN /\ Len(ty'[b].instanceMethods) <= Len(ty'[a].instanceMethods)
            /\ \A i \in 1..Len(ty'[b].instanceMethods) :
                 SlotFollows(ty', fn', a, b, i)]_vars

\* C6: a type whose Overloading pass is finished, with a slot inherited
\* from its primary base, a slot that overrides it, and an appended slot.
C6_Witness ==
  \E a \in Types :
    /\ "Overloading" \in finished[a]
    /\ ty[a].super # NULL
    /\ LET am == ty[a].instanceMethods
           bm == ty[ty[a].super].instanceMethods
       IN /\ Len(am) > Len(bm)
          /\ \E i \in 1..Len(bm) : am[i] = bm[i]
          /\ \E i \in 1..Len(bm) :
               am[i] # bm[i] /\ bm[i] \in fn[am[i]].overriddenMethods

\* C7: once the Overloading pass is finished on T, every method in
\* T.instanceMethods has a dispatch index i within the table, and the
\* method at index i of T.instanceMethods is that method.
C7_DispatchIndex ==
  \A t \in Types :
    "Overloading" \in finished[t] =>
      \A k \in 1..Len(ty[t].instanceMethods) :
        LET m == ty[t].instanceMethods[k]
            i == fn[m].dispatchIndex
        IN /\ 0 <= i
           /\ i < Len(ty[t].instanceMethods)
           /\ ty[t].instanceMethods[i + 1] = m

\* C7: a finished vtable with an inherited method, a method that overrides
\* two inherited slots at once, and an appended method.
C7_Witness ==
  \E t \in Types :
    /\ "Overloading" \in finished[t]
    /\ LET im == ty[t].instanceMethods
       IN /\ \E k \in 1..Len(im) : OwnerOf(im[k]) # t
          /\ \E k1, k2 \in 1..Len(im) : k1 < k2 /\ im[k1] = im[k2]
          /\ \E k \in 1..Len(im) :
               /\ OwnerOf(im[k]) = t
               /\ fn[im[k]].overriddenMethods = {}
               /\ fn[im[k]].dispatchIndex = k - 1

\* Method m is method n or overrides it, directly or through a chain of
\* overridden methods, for the methods fns of a state.
RECURSIVE OverridesOrIs(_, _, _)
OverridesOrIs(fns, m, n) ==
  \/ m = n
  \/ \E x \in fns[m].overriddenMethods : OverridesOrIs(fns, x, n)

\* C8 as stated, with "overrides" read at its weakest: once Overloading is
\* finished on A, every itable of A has as many entries as its interface has
\* instance methods, and entry j is method j of the interface or overrides
\* it, directly or through a chain of overrides.
C8_ItableParallel ==
  \A a \in Types :
    "Overloading" \in finished[a] =>
      \A k \in 1..Len(ty[a].interfaces) :
        LET table == ty[a].interfaces[k].methods
            im == ty[ty[a].interfaces[k].interfaceType].instanceMethods
        IN /\ Len(table) = Len(im)
           /\ \A j \in 1..Len(table) : OverridesOrIs(fn, table[j], im[j])

\* C9 as stated: if A is a concrete class and its Overloading pass
\* succeeded (analyzeOverloading returns true whenever it returns, so the
\* pass is finished), no method in A.instanceMethods lacks a body, extern,
\* intrinsic and undef methods apart.
C9_Complete ==
  \A a \in Types :
    /\ decl(a).kind = "Class"
    /\ ~decl(a).isAbstract
    /\ "Overloading" \in finished[a]
    => \A m \in Range(ty[a].instanceMethods) : ~lacksBody(m)

\* The itable of type c for interface i has drawn the diagnostic of an
\* unimplemented interface.
Diagnosed(c, i) ==
  \E d \in diag :
    d.kind = "LacksImplementation" /\ d.target = c /\ i \in d.cites

\* C10 as stated: once the Overloading pass is finished on a non-abstract
\* type C, the unimplemented-interface diagnostic has been emitted for
\* exactly the itables of C that hold an entry without a body.
C10_EveryItableDiagnosed ==
  \A c \in Types :
    ~decl(c).isAbstract /\ "Overloading" \in finished[c] =>
      \A k \in 1..Len(ty[c].interfaces) :
        Diagnosed(c, ty[c].interfaces[k].interfaceType) <=>
          \E m \in Range(ty[c].interfaces[k].methods) : lacksBody(m)

\* The methods of type b that carry the name of m and are
\* override-compatible with m, in declaration order.
Compatible(b, m) ==
  SelectSeq(decl(b).methods,
            LAMBDA f : fdef(f).name = fdef(m).name /\ canOverride(f, m))

\* After the step, method f of b sits in slot i (from 1) of b's vtable in
\* place of m, the vtable holds f in no slot beyond the inherited ones, f
\* has the index of the first inherited slot it overrides, and m is
\* recorded as overridden by f.
Replaces(b, inherited, f, i) ==
  /\ ty'[b].instanceMethods[i] = f
  /\ \A j \in (Len(inherited) + 1)..Len(ty'[b].instanceMethods) :
       ty'[b].instanceMethods[j] # f
  /\ inherited[i] \in fn'[f].overriddenMethods
  /\ LET first == CHOOSE j \in 1..i :
                    /\ Compatible(b, inherited[j]) # <<>>
                    /\ Compatible(b, inherited[j])[1] = f
                    /\ \A j2 \in 1..(j - 1) :
                         \/ Compatible(b, inherited[j2]) = <<>>
                         \/ Compatible(b, inherited[j2])[1] # f
     IN fn'[f].dispatchIndex = IF fn[f].dispatchIndex < 0 THEN first - 1
                               ELSE fn[f].dispatchIndex

C11_FirstCompatible ==
  \A b \in Types :
    OverloadingFinishes(b) /\ ty'[b].super # NULL =>
      LET inherited == ty[ty'[b].super].instanceMethods
      IN \A i \in 1..Len(inherited) :
           Compatible(b, inherited[i]) # <<>> =>
             Replaces(b, inherited, Compatible(b, inherited[i])[1], i)

\* Scenario S1: B.super is A, the vtables of A and B have the same length,
\* B.foo sits in the slot of foo, and B.foo overrides exactly A.foo.
C11_Scenario ==
  prog = ProgOverride /\ "Overloading" \in finished["B"] =>
    /\ ty["B"].super = "A"
    /\ Len(ty["B"].instanceMethods) = Len(ty["A"].instanceMethods)
    /\ \E i \in 1..Len(ty["A"].instanceMethods) :
         /\ ty["A"].instanceMethods[i] = "A_foo"
         /\ ty["B"].instanceMethods[i] = "B_foo"
         /\ fn["B_foo"].dispatchIndex = i - 1
    /\ fn["B_foo"].overriddenMethods = {"A_foo"}

ScenarioOverrideDone ==
  /\ prog = ProgOverride
  /\ "Overloading" \in finished["B"]
  /\ "B_foo" \in Range(ty["B"].instanceMethods)

\* C12: once the BaseTypes pass is finished on T and T.super is not null,
\* the first element of T.bases is T.super.
C12_SuperFirst ==
  \A t \in Types :
    "BaseTypes" \in finished[t] /\ ty[t].super # NULL =>
      ty[t].bases # <<>> /\ ty[t].bases[1] = ty[t].super

\* C12: a type with a super and a secondary base after its BaseTypes pass.
C12_Witness ==
  \E t \in Types :
    /\ "BaseTypes" \in finished[t]
    /\ ty[t].super # NULL
    /\ Len(ty[t].bases) >= 2
    /\ ty[t].bases[2] # ty[t].super

\* C13 as stated: once the BaseTypes pass is finished on a class T, at most
\* one element of T.bases is a class.
C13_OneClassBase ==
  \A t \in Types :
    decl(t).kind = "Class" /\ "BaseTypes" \in finished[t] =>
      Cardinality({k \in 1..Len(ty[t].bases) :
                     decl(ty[t].bases[k]).kind = "Class"}) <= 1

\* The diagnostics of the BaseTypes pass.
BaseTypesErrors ==
  {"UndefinedType", "CannotInherit", "BaseIsTemplate", "BaseIsFinal",
   "SingleConcreteSupertype", "ClassBaseKind", "StructBaseKind",
   "StructSingleSupertype", "InterfaceBaseKind", "IllegalState",
   "CircularInheritance"}

\* C14 as stated: an activation that had the BaseTypes pass of T to run and
\* returns after that pass diagnosed an error on T returns false.
C14_ErrorsFail ==
  \A k \in 1..Len(stack) :
    /\ stack[k].pc = "return"
    /\ "BaseTypes" \in stack[k].run
    /\ \E d \in diag : d.target = stack[k].t /\ d.kind \in BaseTypesErrors
    => ~stack[k].rv

\* C15 as stated: once the BaseTypes pass is finished on a struct or an
\* interface, its primary base (super) is not a protocol.
C15_ProtocolSecondary ==
  \A t \in Types :
    /\ decl(t).kind \in {"Struct", "Interface"}
    /\ "BaseTypes" \in finished[t]
    /\ ty[t].super # NULL
    => decl(ty[t].super).kind # "Protocol"

\* C16 as stated: once the Field pass is finished on A, the first instance
\* field slot of A is the null super slot iff A.super is not null, and once
\* the Field pass of A.super is finished as well, every user field of A has
\* a recursive index at or above the recursive field count of A.super.
C16_FieldIndexLaw ==
  \A a \in Types :
    "Field" \in finished[a] =>
      /\ (ty[a].instanceFields # <<>> /\ ty[a].instanceFields[1] = NullSlot)
           <=> ty[a].super # NULL
      /\ ty[a].super # NULL /\ "Field" \in finished[ty[a].super] =>
           \A k \in 1..Len(ty[a].instanceFields) :
             ty[a].instanceFields[k] # NullSlot =>
               ty[a].instanceFields[k].rindex >=
                 instanceFieldCountRecursive(cur, ty[a].super)

\* The synthesized constructors of type t.
Synthesized(t) == SelectSeq(ty[t].ctors, LAMBDA c : c.synthetic)

\* Type t declares an instance constructor or a static create function.
DeclaresConstructor(t) == decl(t).ctors # <<>> \/ decl(t).hasCreate

\* C17 as stated: once the Constructor pass is finished on T, T has a
\* synthesized default constructor iff T is a class or a struct and declares
\* neither a constructor nor a create function.
C17_SynthesizedIff ==
  \A t \in Types :
    "Constructor" \in finished[t] =>
      (Synthesized(t) # <<>> <=>
         decl(t).kind \in {"Class", "Struct"} /\ ~DeclaresConstructor(t))

\* C17, amended: once the Constructor pass is finished on T, T has a
\* synthesized default constructor iff T is a class or a struct, declares
\* neither a constructor nor a static create function, and the super of T,
\* if T has one, has a default constructor; without the last, the pass
\* diagnoses the missing default constructor of the super instead.
C17_SynthesizedIffSuper ==
  \A t \in Types :
    "Constructor" \in finished[t] =>
      LET wanted == decl(t).kind \in {"Class", "Struct"}
                      /\ ~DeclaresConstructor(t)
          superOk == ty[t].super = NULL
                       \/ hasDefaultConstructor(cur, ty[t].super)
      IN /\ Synthesized(t) # <<>> <=> wanted /\ superOk
         /\ wanted /\ ~superOk =>
              \E d \in diag : d.kind = "NoDefaultConstructor" /\ d.target = t

\* C17: after their Constructor passes, a class with a synthesized
\* constructor whose super declares a constructor of its own, or a class
\* without one because its super has no default constructor.
C17_Witness ==
  \E t \in Types :
    /\ "Constructor" \in finished[t]
    /\ ~DeclaresConstructor(t)
    /\ decl(t).kind = "Class"
    /\ ty[t].super # NULL
    /\ "Constructor" \in finished[ty[t].super]
    /\ DeclaresConstructor(ty[t].super)
    /\ Synthesized(t) = <<>>

\* The names of the public instance var fields of type t that satisfy P, in
\* declaration order.
PublicVars(t, P(_)) ==
  LET fds == SelectSeq(decl(t).fields,
                       LAMBDA fd : ~fd.isStatic /\ ~fd.isLet /\ fd.isPublic /\ P(fd))
  IN [k \in 1..Len(fds) |-> fds[k].name]

\* Class a is concrete and declares no constructor and no create function,
\* and its Constructor pass is finished.
DefaultConstructed(a) ==
  /\ decl(a).kind = "Class"
  /\ ~decl(a).isAbstract
  /\ ~DeclaresConstructor(a)
  /\ "Constructor" \in finished[a]

C19_BodyAssignsAll ==
  prog = ProgDefaultCtor /\ "Constructor" \in finished["P"] =>
    /\ Len(ty["P"].ctors) = 1
    /\ ty["P"].ctors[1].required = <<"x">>
    /\ ty["P"].ctors[1].optional = <<"y">>
    /\ Range(ty["P"].ctors[1].assigns) = {"x", "y", "z"}

\* C20 as stated: when the outermost prepare(T, PrepCodeGeneration) of a
\* type T that is neither a template nor a template member returns true,
\* all passes of the enumeration are finished on T.
C20_AllPasses ==
  [][/\ Len(stack) = 1
     /\ stack' = <<>>
     /\ stack[1].task = "PrepCodeGeneration"
     /\ stack[1].rv
     /\ ~isFromTemplate(stack[1].t)
     => finished'[stack[1].t] = Passes]_vars

\* The recoverable errors the model emits on a type, each with the pass
\* that emits it.
RecoverablePass ==
  [ NameConflict |-> "NamingConflict",
    DataMemberInInterface |-> "Field",
    FinalInInterface |-> "Method",
    NonPublicInInterface |-> "Method",
    SignatureConflict |-> "Method",
    NoDefaultConstructor |-> "Constructor",
    LacksDefinition |-> "Overloading",
    LacksImplementation |-> "Overloading" ]

\* C21 as stated: an outermost prepare of T that had a pass to run which
\* emitted a recoverable error on T returns false.
C21_ErrorsPropagate ==
  Len(stack) = 1 /\ stack[1].pc = "return" /\ stack[1].rv =>
    \A d \in diag :
      d.target = stack[1].t /\ d.kind \in DOMAIN RecoverablePass =>
        RecoverablePass[d.kind] \notin stack[1].run

\* C22 as stated: when the outermost prepare call has returned, no pass of
\* any type is left in the running state.
C22_NoneRunning == stack = <<>> => \A t \in Types : running[t] = {}

\* The type whose vtable the Overloading pass of t copies, for the types
\* tys of a state: the super, or the first base of a struct or an interface
\* without super; NULL if there is none.
SuperClass(tys, t) ==
  IF /\ tys[t].super = NULL
     /\ decl(t).kind \in {"Interface", "Struct"}
     /\ tys[t].bases # <<>>
  THEN tys[t].bases[1] ELSE tys[t].super

\* The types whose method tables the Overloading pass of t copies, for the
\* types tys of a state: the super (or the first base of a struct or an
\* interface without super) and the interfaces t has an itable for.
TableSources(tys, t) ==
  (IF SuperClass(tys, t) # NULL THEN {SuperClass(tys, t)} ELSE {})
       \cup {tys[t].interfaces[k].interfaceType :
               k \in 1..Len(tys[t].interfaces)}

\* C23 as stated: when the Overloading pass of T finishes, the Overloading
\* pass is finished on every type whose method table T copied.
C23_BaseOverloaded ==
  [][\A t \in Types :
       OverloadingFinishes(t) =>
         \A b \in TableSources(ty', t) : "Overloading" \in finished'[b]]_vars

\* C24 as stated: the step in which the Field pass of T reserves the slot
\* of the superclass and reads the recursive field count of T.super is
\* taken with the Field pass of T.super finished.
C24_SuperFieldsFirst ==
  [][\A t \in Types :
       /\ ty[t].instanceFields = <<>>
       /\ ty'[t].instanceFields # <<>>
       /\ ty'[t].super # NULL
       => "Field" \in finished[ty'[t].super]]_vars

\* C25 as stated: for every type T whose BaseTypes pass is finished, every
\* ancestor of T that createInterfaceTables keeps after removing the first
\* base of T and of each ancestor is an interface, and the assertion of
\* createInterfaceTables has not failed.
C25_OnlyInterfaces ==
  /\ \A t \in Types :
       "BaseTypes" \in finished[t] =>
         \A a \in Range(interfaceTypes(cur, t)) : decl(a).kind = "Interface"
  /\ \A d \in diag : d.kind # "AssertionFailed"

\* C26 as stated: a prepare(T, task) that is repeated directly after it
\* returned false returns false again.
C26_FailureStable == rep.phase = "after" /\ ~rep.r1 => ~ret

\* The final functions declared in type t.
FinalMethods(t) == {m \in Range(decl(t).methods) : fdef(m).isFinal}

\* C27 as stated: once the Overloading pass is finished on T, no final
\* function declared in T is in T.instanceMethods, and every final function
\* of T has dispatch index -1.
C27_FinalNeverInVtable ==
  \A t \in Types :
    "Overloading" \in finished[t] =>
      \A m \in FinalMethods(t) :
        /\ m \notin Range(ty[t].instanceMethods)
        /\ fn[m].dispatchIndex = -1

\* C27, amended: a final function is never appended to the vtable.  When
\* the Overloading pass of T finishes, a final function of T occupies only
\* slots T inherited, those whose method has its name and a signature it is
\* override-compatible with and for which no method declared before it is;
\* its dispatch index is that of the first slot it occupies, and -1 if it
\* occupies none.
C27_FinalNotAppended ==
  [][\A t \in Types :
       OverloadingFinishes(t) =>
         LET inherited == IF SuperClass(ty', t) = NULL THEN <<>>
                          ELSE ty[SuperClass(ty', t)].instanceMethods
             im == ty'[t].instanceMethods
         IN \A m \in FinalMethods(t) :
              LET slots == {k \in 1..Len(im) : im[k] = m}
              IN /\ \A k \in slots :
                      /\ k <= Len(inherited)
                      /\ Compatible(t, inherited[k]) # <<>>
                      /\ Compatible(t, inherited[k])[1] = m
                 /\ \A k \in 1..Len(inherited) :
                      /\ Compatible(t, inherited[k]) # <<>>
                      /\ Compatible(t, inherited[k])[1] = m
                      => k \in slots
                 /\ fn'[m].dispatchIndex =
                      IF slots = {} THEN -1
                      ELSE (CHOOSE k \in slots : \A k2 \in slots : k <= k2) - 1
    ]_vars

\* C27: after the Overloading pass of B, the final function B.f sits in the
\* slot of the A.f it overrides, and the final function B.h, which overrides
\* nothing, is not in the vtable and has no dispatch index.
C27_Witness ==
  /\ prog = ProgFinal
  /\ "Overloading" \in finished["B"]
  /\ \E k \in 1..Len(ty["A"].instanceMethods) :
       /\ ty["A"].instanceMethods[k] = "A_f"
       /\ ty["B"].instanceMethods[k] = "B_f"
       /\ fn["B_f"].dispatchIndex = k - 1
  /\ "B_h" \notin Range(ty["B"].instanceMethods)
  /\ fn["B_h"].dispatchIndex = -1

\* The vtable type t inherits and the itables it starts from, as the
\* Overloading pass of t builds them in the current state before it
\* overrides anything.
InheritedMethods(t) == copyBaseClassMethods(cur, t).ty[t].instanceMethods

InheritedTables(t) == createInterfaceTables(cur, t).ty[t].interfaces

\* The occupants of the itable slots t starts from that occupy no slot of
\* the vtable it inherits.
ItableOnly(t) ==
  UNION {Range(InheritedTables(t)[k].methods) :
           k \in 1..Len(InheritedTables(t))} \ Range(InheritedMethods(t))

\* The members of t that carry the name of the slot occupant m: the
\* same-named methods of t for a method, and for a getter or setter the
\* accessors of that kind of the same-named property of t.
SameNamed(t, m) ==
  IF fdef(m).prop = NULL
  THEN {f \in Range(decl(t).methods) : fdef(f).name = fdef(m).name}
  ELSE {f \in Accessors(t) \ {NULL} :
          fdef(f).name = fdef(m).name /\ fdef(f).prop = fdef(m).prop}

\* t declares members of the name of m, none of them override-compatible
\* with m.
Incompatible(t, m) ==
  SameNamed(t, m) # {} /\ \A f \in SameNamed(t, m) : ~canOverride(f, m)

\* The step emits a warning of one of the kinds on the occupant m.
Warns(kinds, m) == \E d \in diag' \ diag : d.kind \in kinds /\ d.target = m

Overrode(t, f, m) ==
  /\ f # m
  /\ m \in fn'[f].overriddenMethods
  /\ \/ \E i \in 1..Len(InheritedMethods(t)) :
          InheritedMethods(t)[i] = m /\ ty'[t].instanceMethods[i] = f
     \/ \E k \in 1..Len(InheritedTables(t)) :
          \E i \in 1..Len(InheritedTables(t)[k].methods) :
            /\ InheritedTables(t)[k].methods[i] = m
            /\ ty'[t].interfaces[k].methods[i] = f

\* The step emits the diagnostic that f, which overrides m, should be
\* declared with the override keyword.
Suggests(f, m) ==
  \E d \in diag' \ diag :
    d.kind = "ShouldBeOverride" /\ d.target = f /\ m \in d.cites

\* The methods and the accessors declared in type t.
Members(t) == Range(decl(t).methods) \cup (Accessors(t) \ {NULL})

CompletionStep(S) == S \cup UNION {Range(completionCalls(cur, t)) : t \in S}

\* The types reached from the types S through super chains and members.
RECURSIVE CompletionReach(_)
CompletionReach(S) ==
  IF CompletionStep(S) = S THEN S ELSE CompletionReach(CompletionStep(S))

\* The top activation is a prepare(T, PrepCodeGeneration) that was called
\* from within the running Completion pass of T, through the super or a
\* member of T that refers back to T, and it has not run yet.
Reentered ==
  /\ Len(stack) >= 2
  /\ stack[Len(stack)].task = "PrepCodeGeneration"
  /\ stack[Len(stack)].pc # "return"
  /\ "Completion" \in running[stack[Len(stack)].t]
  /\ \E j \in 1..(Len(stack) - 1) :
       /\ stack[j].t = stack[Len(stack)].t
       /\ stack[j].pc = "Completion"
       /\ stack[j].sub = "loop"

\* A re-entered prepare(T, PrepCodeGeneration) runs to its return at once:
\* it returns success, emits no diagnostic, and begins and finishes no pass.
C30_ReentryQuiet ==
  Reentered =>
    /\ Len(stack') = Len(stack)
    /\ stack'[Len(stack)].pc = "return"
    /\ stack'[Len(stack)].rv
    /\ diag' = diag
    /\ running' = running
    /\ finished' = finished

\* When the outermost prepare(T, PrepCodeGeneration) returns success, the
\* Completion pass is finished on every type reached from T through super
\* chains and members.
C30_AllCompleted ==
  /\ Len(stack) = 1
  /\ stack' = <<>>
  /\ stack[1].task = "PrepCodeGeneration"
  /\ stack[1].rv
  /\ ~isFromTemplate(stack[1].t)
  => \A u \in CompletionReach({stack[1].t}) : "Completion" \in finished'[u]

\* C30 as stated: a prepare(T, PrepCodeGeneration) that re-enters the
\* running Completion pass of T returns success without a diagnostic and
\* without running the pass again, and once the outermost
\* prepare(T, PrepCodeGeneration) has returned success the Completion pass
\* is finished on T and on every type reached through its super chain and
\* its members.
C30_CompletionReentry == [][C30_ReentryQuiet /\ C30_AllCompleted]_vars

====
